---- MODULE Spec2Model ----
(***************************************************************************)
(* Model of zoom-youtube-uploader: the Zoom recording locator              *)
(* (ZoomClient.list_recordings), the YouTube Studio upload driver          *)
(* (YouTubeClient.upload_video) and the orchestrator (cli.run).            *)
(*                                                                         *)
(* Python strings are sequences of one-character strings, so that          *)
(* substring tests, regular expressions, split and strip are computed as   *)
(* the code computes them.                                                  *)
(***************************************************************************)
EXTENDS Integers, Sequences, FiniteSets, TLC

VARIABLES
    pc,              \* position of the running process
    page,            \* the Zoom listing page: the links list_recordings reads
    recording_date,  \* cli.run: recording_date
    recordings,      \* cli.run: recordings, the value list_recordings returned
    config,          \* cli.run: config
    selected,        \* cli.run: selected (<<>> before the selection)
    title,           \* cli.run: title
    upload_log,      \* cli.run: upload_log, the ledger as loaded
    ledger,          \* the file uploads.json
    files,           \* the files of the temporary directory, by name
    result,          \* cli.run: result (<<>> before upload_video returns)
    pending,         \* the SystemExit or exception travelling to the finally clause
    exit_code,       \* the exit code of the process (<<>> while it runs)
    console,         \* the messages printed in this run
    trace,           \* the driver and file operations of this run, in order
    browser,         \* the Playwright driver, context and pages
    step,            \* upload_video: the index of the "next" loop
    yt_dom,          \* the YouTube Studio page as upload_video observes it
    upload_error,    \* window.__ytUploadError
    error,           \* the message of the exception upload_video raised
    clicks,          \* upload_video: the finish controls clicked, in order
    ledger0,         \* uploads.json when the run started
    files0,          \* the temporary directory when the run started
    studio,          \* which probes of the Studio upload dialog find their element
    choice,          \* the number typed at the selection prompt (<<>>: not asked)
    ops,             \* upload_video: the page operations attempted, in order
    date_input,      \* parse_date_input on its own: the text typed at the prompt
    date_today,      \* parse_date_input on its own: the value of date.today()
    detail           \* download_recording on its own: the recording detail page

vars == <<pc, page, recording_date, recordings, config, selected, title,
          upload_log, ledger, files, result, pending, exit_code, console,
          trace, browser, step, yt_dom, upload_error, error, clicks,
          ledger0, files0, studio, choice, ops,
                   date_input, date_today, detail>>

\* The variables list_recordings does not touch.
run_vars == <<config, selected, title, upload_log, ledger, files, result,
              pending, exit_code, console, trace, browser, step, yt_dom,
              upload_error, error, clicks, ledger0, files0, studio, choice, ops,
                   date_input, date_today, detail>>

----------------------------------------------------------------------------
(* Bounds of the model.                                                    *)

\* Largest number of recording links on a listing page (SpecList).
MaxLinks == 2

----------------------------------------------------------------------------
(* Python str operations on character sequences.                           *)

Digit == {"0", "1", "2", "3", "4", "5", "6", "7", "8", "9"}

\* str.strip() and the regex class \s: ASCII whitespace.
Whitespace == {" ", "\t", "\n", "\r"}

\* s[i] when i is an index of s, else a character equal to no other.
At(s, i) == IF i \in 1..Len(s) THEN s[i] ELSE "<none>"

\* Python: s[i-1:j], the characters i..j of s that exist.
sub(s, i, j) ==
    LET lo == IF i < 1 THEN 1 ELSE i
        hi == IF j > Len(s) THEN Len(s) ELSE j
    IN  IF lo > hi THEN <<>> ELSE SubSeq(s, lo, hi)

\* n characters of s from index i on exist and are all in class.
Run(s, i, n, class) == \A k \in 0..(n - 1) : At(s, i + k) \in class

\* Python: p in s
contains(s, p) ==
    \E i \in 0..(Len(s) - Len(p)) : sub(s, i + 1, i + Len(p)) = p

\* Python: s.startswith(p)
startswith(s, p) == Len(p) <= Len(s) /\ sub(s, 1, Len(p)) = p

\* Python: s.isdigit()  (false for the empty string)
isdigit(s) == Len(s) > 0 /\ \A i \in 1..Len(s) : s[i] \in Digit

\* Python: s.strip()
strip(s) ==
    LET keep == {i \in 1..Len(s) : s[i] \notin Whitespace}
    IN  IF keep = {} THEN <<>>
        ELSE LET lo == CHOOSE i \in keep : \A j \in keep : i <= j
                 hi == CHOOSE i \in keep : \A j \in keep : j <= i
             IN  sub(s, lo, hi)

\* Python: s.split(sep) for a non-empty separator: the parts between occurrences.
RECURSIVE split(_, _)
split(s, sep) ==
    LET hits == {i \in 1..(Len(s) - Len(sep) + 1) : sub(s, i, i + Len(sep) - 1) = sep}
    IN  IF hits = {} THEN <<s>>
        ELSE LET i == CHOOSE h \in hits : \A j \in hits : h <= j
             IN  <<sub(s, 1, i - 1)>> \o split(sub(s, i + Len(sep), Len(s)), sep)

\* Python: str(n) / f"{n}" for n >= 0.
RECURSIVE Dec(_)
Dec(n) ==
    LET d == <<"0", "1", "2", "3", "4", "5", "6", "7", "8", "9">>
    IN  IF n < 10 THEN <<d[n + 1]>> ELSE Dec(n \div 10) \o <<d[(n % 10) + 1]>>

\* Python: f"{n:0{w}d}" for n >= 0.
ZeroPad(n, w) ==
    LET s == Dec(n) IN [i \in 1..(w - Len(s)) |-> "0"] \o s

----------------------------------------------------------------------------
(* ZoomClient.list_recordings                                              *)

\* date.strftime('%b') in the C locale, indexed by month number.
MonthAbbr ==
    << <<"J","a","n">>, <<"F","e","b">>, <<"M","a","r">>, <<"A","p","r">>,
       <<"M","a","y">>, <<"J","u","n">>, <<"J","u","l">>, <<"A","u","g">>,
       <<"S","e","p">>, <<"O","c","t">>, <<"N","o","v">>, <<"D","e","c">> >>

\* date.isoformat(): YYYY-MM-DD
isoformat(d) ==
    ZeroPad(d.year, 4) \o <<"-">> \o ZeroPad(d.month, 2) \o <<"-">> \o ZeroPad(d.day, 2)

\* The five renderings of the requested date that a date line is searched for.
date_patterns(d) ==
    << MonthAbbr[d.month] \o <<" ">> \o Dec(d.day) \o <<",", " ">> \o Dec(d.year),
       MonthAbbr[d.month] \o <<" ">> \o ZeroPad(d.day, 2) \o <<",", " ">> \o Dec(d.year),
       Dec(d.month) \o <<"/">> \o Dec(d.day) \o <<"/">> \o Dec(d.year),
       ZeroPad(d.month, 2) \o <<"/">> \o ZeroPad(d.day, 2) \o <<"/">> \o Dec(d.year),
       isoformat(d) >>

\* date_line_re.search(line):
\*   (Jan|...|Dec)\s+\d{1,2},\s+\d{4}  |  \d{1,2}/\d{1,2}/\d{4}   anywhere in line
date_line_re(line) ==
    \E i \in 1..Len(line) :
        \/ /\ \E m \in 1..12 : sub(line, i, i + 2) = MonthAbbr[m]
           /\ \E w1 \in 1..Len(line), a \in 1..2, w2 \in 1..Len(line) :
                /\ Run(line, i + 3, w1, Whitespace)
                /\ Run(line, i + 3 + w1, a, Digit)
                /\ At(line, i + 3 + w1 + a) = ","
                /\ Run(line, i + 4 + w1 + a, w2, Whitespace)
                /\ Run(line, i + 4 + w1 + a + w2, 4, Digit)
        \/ \E a \in 1..2, b \in 1..2 :
                /\ Run(line, i, a, Digit)
                /\ At(line, i + a) = "/"
                /\ Run(line, i + a + 1, b, Digit)
                /\ At(line, i + a + 1 + b) = "/"
                /\ Run(line, i + a + b + 2, 4, Digit)

\* duration_re.match(line):  ^\d{2}:\d{2}:\d{2}$
duration_re(line) ==
    /\ Len(line) = 8
    /\ \A i \in {1, 2, 4, 5, 7, 8} : line[i] \in Digit
    /\ line[3] = ":" /\ line[6] = ":"

\* lines 121-122: the stripped, non-empty lines of a link's inner text.
entry_lines(text) ==
    LET parts == split(strip(text), <<"\n">>)
        stripped == [i \in 1..Len(parts) |-> strip(parts[i])]
    IN  SelectSeq(stripped, LAMBDA l : l # <<>>)

PressShift == <<"P","r","e","s","s"," ","S","h","i","f","t">>

\* line 129: drop the keyboard-hint lines.
clean_lines(lines) == SelectSeq(lines, LAMBDA l : ~startswith(l, PressShift))

\* classify_from with three independent tests: a line may fill two fields.
RECURSIVE classify_from_independent(_, _, _)
classify_from_independent(lines, k, f) ==
    IF k > Len(lines) THEN f
    ELSE LET line == lines[k]
             g == [date_text |-> IF f.date_text = <<>> /\ date_line_re(line)
                                     THEN line ELSE f.date_text,
                   duration |-> IF f.duration = <<>> /\ duration_re(line)
                                    THEN line ELSE f.duration,
                   topic |-> IF f.topic = <<>> /\ ~isdigit(line) /\ Len(line) > 3
                                 THEN line ELSE f.topic]
         IN  classify_from_independent(lines, k + 1, g)

\* lines 132-145: date, duration and topic by content; f is the fields so far.
RECURSIVE classify_from(_, _, _)
classify_from(lines, k, f) ==
    IF k > Len(lines) THEN f
    ELSE LET line == lines[k]
             g == IF f.date_text = <<>> /\ date_line_re(line)
                      THEN [f EXCEPT !.date_text = line]
                  ELSE IF f.duration = <<>> /\ duration_re(line)
                      THEN [f EXCEPT !.duration = line]
                  ELSE IF f.topic = <<>> /\ ~isdigit(line) /\ Len(line) > 3
                      THEN [f EXCEPT !.topic = line]
                  ELSE f
         IN  classify_from(lines, k + 1, g)

Unknown == <<"U","n","k","n","o","w","n">>

classify(lines) ==
    LET f == classify_from(lines, 1, [date_text |-> <<>>, duration |-> <<>>, topic |-> <<>>])
    IN  IF f.topic = <<>> THEN [f EXCEPT !.topic = Unknown] ELSE f

\* is_short with the limit off by one.
is_short_below_two(lines) == Len(lines) < 2

\* line 125: entries with at most two lines are skipped.
is_short(lines) == Len(lines) <= 2

\* line 148: the date line contains one of the patterns.
matches_date(date_text, d) ==
    \E p \in 1..Len(date_patterns(d)) : contains(date_text, date_patterns(d)[p])

\* line 152: the deduplication key.
dedup_key(topic, date_text) == topic \o <<"|">> \o date_text

\* is_duplicate that never finds the key.
is_duplicate_never(key, seen) == FALSE

\* lines 153-155: an entry is dropped when its key was seen, else its key is recorded.
is_duplicate(key, seen) == key \in seen

mark_seen(key, seen) == seen \cup {key}

\* lines 119-165: one pass of the loop over links; st = [recordings, seen].
list_step(st, link, d) ==
    LET lines == entry_lines(link.text)
        f == classify(clean_lines(lines))
        key == dedup_key(f.topic, f.date_text)
    IN  IF is_short(lines) THEN st
        ELSE IF ~matches_date(f.date_text, d) THEN st
        ELSE IF is_duplicate(key, st.seen) THEN st
        ELSE [recordings |-> Append(st.recordings,
                                [topic |-> f.topic, date |-> f.date_text,
                                 duration |-> f.duration, file_size |-> <<>>,
                                 download_url |-> link.href]),
              seen |-> mark_seen(key, st.seen)]

RECURSIVE list_loop(_, _, _, _)
list_loop(links, i, st, d) ==
    IF i > Len(links) THEN st
    ELSE list_loop(links, i + 1, list_step(st, links[i], d), d)

\* lines 76-167: the recordings of the listing page for the requested date.
list_recordings(links, d) ==
    list_loop(links, 1, [recordings |-> <<>>, seen |-> {}], d).recordings

----------------------------------------------------------------------------
(* The listing pages the model reads: link texts as Zoom renders them.     *)

TopicSync == <<"S","y","n","c">>
TopicDemo == <<"D","e","m","o">>
LineFeb3 == <<"F","e","b"," ","3",","," ","2","0","2","6">>
LineFeb03 == <<"F","e","b"," ","0","3",","," ","2","0","2","6">>
LineSlash == <<"2","/","3","/","2","0","2","6">>
LineSlashPadded == <<"0","2","/","0","3","/","2","0","2","6">>
LineIso == <<"2","0","2","6","-","0","2","-","0","3">>
LineDec3Slash == <<"1","2","/","3","/","2","0","2","6">>
LineHalfPadded == <<"0","2","/","3","/","2","0","2","6">>
LineHour == <<"0","1",":","0","0",":","0","0">>
LineHalfHour == <<"0","0",":","3","0",":","0","0">>
LineFileCount == <<"1","2">>
LineHint == <<"P","r","e","s","s"," ","S","h","i","f","t","+","T","a","b">>

\* The lines of a link, one per rendered line, as inner_text() returns them.
RECURSIVE InnerText(_)
InnerText(ls) ==
    IF Len(ls) = 0 THEN <<>>
    ELSE IF Len(ls) = 1 THEN ls[1]
    ELSE ls[1] \o <<"\n">> \o InnerText(Tail(ls))

\* Link texts: every rendering of one date, near misses, short summary rows,
\* a hint line, a blank line, an entry without a topic, a repeated entry, an
\* entry with two date lines, and two entries with a "|" in a line.
Texts ==
    { InnerText(<<TopicSync, LineFeb3, LineHour>>),
      InnerText(<<TopicSync, LineFeb3, LineHalfHour>>),
      InnerText(<<TopicSync, LineFeb03, LineHour>>),
      InnerText(<<TopicSync, LineSlash, LineHour>>),
      InnerText(<<TopicSync, LineSlashPadded, LineHour>>),
      InnerText(<<TopicSync, LineIso, LineHour>>),
      InnerText(<<TopicSync, LineDec3Slash, LineHour>>),
      InnerText(<<TopicSync, LineHalfPadded, LineHour>>),
      InnerText(<<TopicSync, LineFeb3>>),
      InnerText(<<LineFileCount, <<" ">>, LineHour>>),
      InnerText(<<LineHint, TopicDemo, LineFeb3>>),
      InnerText(<<LineFeb3, LineFileCount, LineHour>>),
      InnerText(<<LineFeb3, LineDec3Slash, LineHour>>),
      InnerText(<<TopicSync, <<"N","o","t","e","s","|","F","e","b"," ","3",","," ","2","0","2","6">>, LineHour>>),
      InnerText(<<<<"S","y","n","c","|","N","o","t","e","s">>, LineFeb3, LineHour>>) }

\* The requested dates.
Dates ==
    { [year |-> 2026, month |-> 2, day |-> 3],
      [year |-> 2026, month |-> 12, day |-> 3] }

\* The href of the i-th link of a page ('a[href*="/rec/share"]').
LinkHref(i) == <<"/","r","e","c","/","s","h","a","r","e","/">> \o Dec(i)

\* The listing pages with n links.
RECURSIVE PagesOf(_)
PagesOf(n) ==
    IF n = 0 THEN {<<>>}
    ELSE {Append(p, [text |-> t, href |-> LinkHref(n)]) : p \in PagesOf(n - 1), t \in Texts}

Pages == UNION {PagesOf(n) : n \in 0..MaxLinks}

----------------------------------------------------------------------------
(* utils.parse_date_input and utils.format_date_for_title                  *)

\* The value of a string of decimal digits.
RECURSIVE Num(_)
Num(s) ==
    LET d == [c \in Digit |-> CHOOSE n \in 0..9 : Dec(n) = <<c>>]
    IN  IF Len(s) = 0 THEN 0 ELSE 10 * Num(sub(s, 1, Len(s) - 1)) + d[s[Len(s)]]

\* datetime.date(y, m, d) accepts the triple.
is_leap(y) == (y % 4 = 0 /\ y % 100 # 0) \/ y % 400 = 0

days_in_month(y, m) ==
    IF m = 2 THEN (IF is_leap(y) THEN 29 ELSE 28)
    ELSE IF m \in {4, 6, 9, 11} THEN 30 ELSE 31

valid_date(y, m, d) ==
    /\ y >= 1 /\ m \in 1..12
    /\ d >= 1 /\ d <= days_in_month(y, m)

\* strptime's %m:  1[0-2]|0[1-9]|[1-9]
month_token(s) == isdigit(s) /\ Len(s) \in 1..2 /\ Num(s) \in 1..12

\* strptime's %d:  3[0-1]|[1-2]\d|0[1-9]|[1-9]| [1-9]
day_token(s) ==
    \/ isdigit(s) /\ Len(s) \in 1..2 /\ Num(s) \in 1..31
    \/ Len(s) = 2 /\ s[1] = " " /\ s[2] \in Digit \ {"0"}

\* strptime's %Y:  \d\d\d\d
year_token(s) == isdigit(s) /\ Len(s) = 4

\* The result of a parse that raised ValueError.
ParseError == [year |-> 0, month |-> 0, day |-> 0]

\* datetime.strptime(...).date() of year, month and day texts.
make_date(y, ms, ds) ==
    LET m == Num(strip(ms))
        d == Num(strip(ds))
    IN  IF month_token(ms) /\ day_token(ds) /\ valid_date(y, m, d)
            THEN [year |-> y, month |-> m, day |-> d]
            ELSE ParseError

\* date.today() - timedelta(days=1)
day_before(t) ==
    IF t.day > 1 THEN [t EXCEPT !.day = t.day - 1]
    ELSE IF t.month > 1
        THEN [year |-> t.year, month |-> t.month - 1,
              day |-> days_in_month(t.year, t.month - 1)]
    ELSE [year |-> t.year - 1, month |-> 12, day |-> 31]

Upper == <<"A","B","C","D","E","F","G","H","I","J","K","L","M",
           "N","O","P","Q","R","S","T","U","V","W","X","Y","Z">>

Lower == <<"a","b","c","d","e","f","g","h","i","j","k","l","m",
           "n","o","p","q","r","s","t","u","v","w","x","y","z">>

\* Python: s.lower(), JavaScript: s.toLowerCase()
lower(s) ==
    [i \in 1..Len(s) |->
        IF \E k \in 1..26 : Upper[k] = s[i]
            THEN Lower[CHOOSE k \in 1..26 : Upper[k] = s[i]]
            ELSE s[i]]

\* utils.py 6-34, with today the value of date.today().
parse_date_input(input, today) ==
    LET text == lower(strip(input))
        iso == split(text, <<"-">>)
    IN  IF text = <<"t","o","d","a","y">> THEN today
        ELSE IF text = <<"y","e","s","t","e","r","d","a","y">> THEN day_before(today)
        ELSE IF Len(text) = 10 /\ text[5] = "-"
            THEN IF Len(iso) = 3 /\ year_token(iso[1])
                     THEN make_date(Num(iso[1]), iso[2], iso[3])
                     ELSE ParseError
        ELSE IF Len(text) = 8 /\ isdigit(text)
            THEN make_date(Num(sub(text, 1, 4)), sub(text, 5, 6), sub(text, 7, 8))
        ELSE IF Len(text) <= 5 /\ contains(text, <<"-">>)
            THEN IF Len(iso) = 2 /\ make_date(1900, iso[1], iso[2]) # ParseError
                     THEN [make_date(1900, iso[1], iso[2]) EXCEPT !.year = today.year]
                     ELSE ParseError
        ELSE ParseError

\* utils.py 37-39: d.strftime("%Y%m%d")
format_date_for_title(d) ==
    ZeroPad(d.year, 4) \o ZeroPad(d.month, 2) \o ZeroPad(d.day, 2)

----------------------------------------------------------------------------
(* cli.run: title, destination file and ledger                             *)

\* config_loader.py 18: the default title_format, up to its {date} field.
TitlePrefix == <<"K","u","b","e","r","n","e","t","e","s"," ","S","I","G"," ","W","i","n","d","o","w","s"," ">>

\* cli.py 133-135
make_title(d) == TitlePrefix \o format_date_for_title(d)

\* cli.py 147: f"{title.replace(' ', '_')}.mp4"
dest_name(t) ==
    [i \in 1..Len(t) |-> IF t[i] = " " THEN "_" ELSE t[i]] \o <<".","m","p","4">>

\* A mapping with no key.
EmptyLog == [t \in {} |-> <<>>]

\* cli.py 26-30: the ledger file's object, {} when the file does not exist.
load_upload_log(file) == IF file.exists THEN file.data ELSE EmptyLog

\* cli.py 33-34: the file after the write.
save_upload_log(log) == [exists |-> TRUE, data |-> log]

\* set_item that forgets the other keys.
set_item_alone(log, key, value) == [t \in {key} |-> value]

\* Python: log[key] = value
set_item(log, key, value) ==
    [t \in DOMAIN log \cup {key} |-> IF t = key THEN value ELSE log[t]]

\* already_uploaded that never finds the title.
already_uploaded_never(t, log) == FALSE

\* cli.py 139
already_uploaded(t, log) == t \in DOMAIN log

\* models.py 20-22: UploadResult.url
result_url(r) == <<"h","t","t","p","s",":","/","/","y","o","u","t","u",".","b","e","/">> \o r.video_id

\* no_recordings that lets an empty list through.
no_recordings_never(recs) == FALSE

\* cli.py 120
no_recordings(recs) == Len(recs) = 0

\* after_finally as if the cleanup were part of the finally clause.
after_finally_always_cleanup(p) == "cleanup"

\* cli.py 206-211: where the run goes after the finally clause.
after_finally(p) == IF p = "none" THEN "cleanup" ELSE "exited"

----------------------------------------------------------------------------
(* YouTubeClient.upload_video: the processing poll and the identifier      *)

\* youtube_client.py 171-173: the phrases that make an error element count.
ErrorWords ==
    { <<"a","b","a","n","d","o","n","e","d">>, <<"f","a","i","l","e","d">>, <<"e","r","r","o","r">>, <<"p","r","o","b","l","e","m">>, <<"c","a","n","'","t"," ","p","r","o","c","e","s","s">>, <<"u","n","a","b","l","e">> }

\* youtube_client.py 182-185: the phrases searched in the whole page text.
FailurePhrases ==
    { <<"p","r","o","c","e","s","s","i","n","g"," ","a","b","a","n","d","o","n","e","d">>, <<"u","p","l","o","a","d"," ","f","a","i","l","e","d">>,
      <<"c","a","n","'","t"," ","p","r","o","c","e","s","s"," ","t","h","i","s"," ","v","i","d","e","o">>, <<"s","e","r","v","e","r"," ","r","e","j","e","c","t","e","d">> }

PageErrorNote == <<"U","p","l","o","a","d"," ","e","r","r","o","r"," ","d","e","t","e","c","t","e","d"," ","i","n"," ","p","a","g","e">>

\* youtube_client.py 167-178: the error elements (the first match of each
\* selector, in selector order) that are visible and carry an error word.
error_hits(els) ==
    {k \in 1..Len(els) :
        /\ els[k].visible
        /\ strip(els[k].text) # <<>>
        /\ \E w \in ErrorWords : contains(lower(strip(els[k].text)), w)}

\* poll_function that looks at the finish control before the error states.
poll_function_done_first(dom, old) ==
    LET hits == error_hits(dom.error_els)
    IN  IF dom.done_btn = "enabled"
            THEN [fired |-> TRUE, note |-> <<>>]
        ELSE IF hits # {}
            THEN [fired |-> TRUE,
                  note |-> strip(dom.error_els[CHOOSE k \in hits : \A j \in hits : k <= j].text)]
        ELSE IF \E ph \in FailurePhrases : contains(lower(dom.body), ph)
            THEN [fired |-> TRUE, note |-> PageErrorNote]
        ELSE [fired |-> FALSE, note |-> old]

\* youtube_client.py 159-197: the polled function on the page dom;
\* fired is its return value, note the value left in window.__ytUploadError.
poll_function(dom, old) ==
    LET hits == error_hits(dom.error_els)
    IN  IF hits # {}
            THEN [fired |-> TRUE,
                  note |-> strip(dom.error_els[CHOOSE k \in hits : \A j \in hits : k <= j].text)]
        ELSE IF \E ph \in FailurePhrases : contains(lower(dom.body), ph)
            THEN [fired |-> TRUE, note |-> PageErrorNote]
        ELSE IF dom.done_btn = "enabled"
            THEN [fired |-> TRUE, note |-> <<>>]
        ELSE [fired |-> FALSE, note |-> old]

\* youtube_client.py 203-206
timeout_message(progress) ==
    <<"U","p","l","o","a","d"," ","t","i","m","e","d"," ","o","u","t","."," ","P","r","o","g","r","e","s","s"," ","a","t"," ","t","i","m","e","o","u","t",":"," ">> \o progress
        \o <<"."," ","S","c","r","e","e","n","s","h","o","t"," ","s","a","v","e","d"," ","t","o"," ","y","t","_","d","e","b","u","g","_","u","p","l","o","a","d","_","t","i","m","e","o","u","t",".","p","n","g">>

\* youtube_client.py 213-217
upload_error_message(note, status_text) ==
    <<"Y","o","u","T","u","b","e"," ","u","p","l","o","a","d"," ","e","r","r","o","r",":"," ">> \o note \o <<"."," ","S","t","a","t","u","s"," ","t","e","x","t",":"," ">> \o status_text
        \o <<"."," ","S","c","r","e","e","n","s","h","o","t"," ","s","a","v","e","d"," ","t","o"," ","y","t","_","d","e","b","u","g","_","u","p","l","o","a","d","_","e","r","r","o","r",".","p","n","g">>

PublishMessage == <<"C","o","u","l","d"," ","n","o","t"," ","c","l","i","c","k"," ","P","u","b","l","i","s","h","/","S","a","v","e"," ","b","u","t","t","o","n",".">>

\* Python: s.split(sep)[-1]
last_part(s, sep) == split(s, sep)[Len(split(s, sep))]

\* Python: s.split(sep)[0]
first_part(s, sep) == split(s, sep)[1]

\* The sentinel of line 366.
UnknownId == <<"u","n","k","n","o","w","n">>

\* extract_video_id without the sentinel: the empty text when nothing is found.
extract_video_id_no_sentinel(href, url) ==
    IF href # <<>> /\ contains(href, <<"y","o","u","t","u",".","b","e","/">>)
        THEN first_part(last_part(href, <<"y","o","u","t","u",".","b","e","/">>), <<"?">>)
    ELSE IF contains(url, <<"/","v","i","d","e","o","/">>)
        THEN first_part(last_part(url, <<"/","v","i","d","e","o","/">>), <<"/">>)
    ELSE <<>>

\* youtube_client.py 343-366; href is <<>> when no link is found in time.
extract_video_id(href, url) ==
    IF href # <<>> /\ contains(href, <<"y","o","u","t","u",".","b","e","/">>)
        THEN first_part(last_part(href, <<"y","o","u","t","u",".","b","e","/">>), <<"?">>)
    ELSE IF href # <<>> /\ contains(href, <<"y","o","u","t","u","b","e",".","c","o","m","/","v","i","d","e","o","/">>)
        THEN first_part(last_part(href, <<"y","o","u","t","u","b","e",".","c","o","m","/","v","i","d","e","o","/">>), <<"/">>)
    ELSE IF contains(url, <<"/","v","i","d","e","o","/">>)
        THEN first_part(last_part(url, <<"/","v","i","d","e","o","/">>), <<"/">>)
    ELSE UnknownId

----------------------------------------------------------------------------
(* The inputs of a run: configuration, date texts, listing pages, the      *)
(* download's course, the Studio page during and after processing.         *)

\* config.yaml: the defaults, and a file naming a thumbnail and a playlist.
Configs ==
    { [thumbnail_file |-> <<>>, playlist_name |-> <<>>],
      [thumbnail_file |-> <<"t",".","p","n","g">>, playlist_name |-> <<"S","I","G">>] }

\* What the user types at the date prompt.
DateTexts ==
    { <<"0","2","-","0","3">>, <<"2","0","2","6","-","0","2","-","0","3">>, <<"2","0","2","6","1","2","0","3">>, <<"y","e","s","t","e","r","d","a","y">>, <<"t","o","d","a","y">>, <<"t","o","m","o","r","r","o","w">> }

\* date.today()
Todays == { [year |-> 2026, month |-> 12, day |-> 4] }

EntryA == [text |-> InnerText(<<TopicSync, LineFeb3, LineHour>>), href |-> LinkHref(1)]
EntryB == [text |-> InnerText(<<LineHint, TopicDemo, LineFeb3>>), href |-> LinkHref(2)]
LineDec3 == <<"D","e","c"," ","3",","," ","2","0","2","6">>

EntryC == [text |-> InnerText(<<TopicSync, LineDec3, LineHour>>), href |-> LinkHref(3)]
EntryShort == [text |-> InnerText(<<TopicSync, LineFeb3>>), href |-> LinkHref(4)]

\* The listing pages a run may find.
RunPages == { <<>>, <<EntryShort>>, <<EntryA>>, <<EntryA, EntryB>>, <<EntryC>> }

\* Largest number typed at the selection prompt.
MaxChoice == 3

\* zoom_client.py 221-227: the selectors of the confirmation dialog's button.
ModalSelectors ==
    << ".zm-modal-footer button:has-text(Download)",
       ".modal-footer button:has-text(Download)",
       "[role=dialog] button:has-text(Download)",
       ".ReactModal__Content button:has-text(Download)" >>

\* The recording detail page: a visible download control, what each modal
\* selector finds (no visible match: "hidden"; a control whose click starts a
\* transfer: "starts"; one whose click raises or is followed by no transfer
\* before the timeout: "silent"), the number of "Download" buttons, what a click on the last
\* of them and a second click on the control lead to, and what save_as leaves
\* at the destination (the whole file; nothing, or a file cut short before its
\* first byte, when the save fails).
DetailPages ==
    [button : BOOLEAN,
     modal : [1..Len(ModalSelectors) -> {"hidden", "starts", "silent"}],
     buttons : 0..2,
     last : {"starts", "silent"},
     again : {"starts", "silent"},
     save : {"complete", "none", "empty"}]

\* A detail page without any download control.
NoDetail ==
    [button |-> FALSE, modal |-> [k \in 1..Len(ModalSelectors) |-> "hidden"],
     buttons |-> 0, last |-> "silent", again |-> "silent", save |-> "none"]

\* The courses of a download in a run: no control; no transfer after any
\* click; a confirmed transfer with each outcome of the save.
DownloadEnvs ==
    { NoDetail,
      [NoDetail EXCEPT !.button = TRUE, !.buttons = 1] }
      \cup { [NoDetail EXCEPT !.button = TRUE, !.buttons = 2,
                              !.modal[3] = "starts", !.save = f] :
                 f \in {"complete", "none", "empty"} }

\* The Studio page as a poll may find it.
StudioUrl == <<"h","t","t","p","s",":","/","/","s","t","u","d","i","o",".","y","o","u","t","u","b","e",".","c","o","m","/">>

Dom(els, body, btn) ==
    [error_els |-> els, body |-> body, done_btn |-> btn, href |-> <<>>, url |-> StudioUrl]

NoDom == Dom(<<>>, <<>>, "absent")

Doms ==
    { Dom(<<>>, <<"U","p","l","o","a","d","i","n","g"," ","4","5","%">>, "disabled"),
      Dom(<<>>, <<"C","h","e","c","k","s"," ","c","o","m","p","l","e","t","e">>, "enabled"),
      Dom(<<[visible |-> TRUE, text |-> <<" ","P","r","o","c","e","s","s","i","n","g"," ","a","b","a","n","d","o","n","e","d"," ">>]>>,
          <<"P","r","o","c","e","s","s","i","n","g"," ","a","b","a","n","d","o","n","e","d">>, "disabled"),
      Dom(<<>>, <<"P","r","o","c","e","s","s","i","n","g"," ","a","b","a","n","d","o","n","e","d">>, "disabled"),
      Dom(<<>>, <<"P","r","o","c","e","s","s","i","n","g"," ","a","b","a","n","d","o","n","e","d">>, "enabled"),
      Dom(<<[visible |-> FALSE, text |-> <<"U","p","l","o","a","d"," ","f","a","i","l","e","d">>]>>, <<"U","p","l","o","a","d","i","n","g"," ","4","5","%">>, "disabled"),
      Dom(<<[visible |-> TRUE, text |-> <<"L","i","m","i","t"," ","r","e","a","c","h","e","d">>]>>, <<"L","i","m","i","t"," ","r","e","a","c","h","e","d">>, "enabled") }

\* What _get_upload_status_text scrapes.
StatusTexts ==
    { <<>>, <<".","p","r","o","g","r","e","s","s","-","l","a","b","e","l",":"," ","P","r","o","c","e","s","s","i","n","g"," ","a","b","a","n","d","o","n","e","d">>, <<"(","c","o","u","l","d"," ","n","o","t"," ","r","e","a","d"," ","s","t","a","t","u","s",")">> }

\* The page after the publish click: the href of the first identifier link of
\* the success dialog (<<>>: no link found in time) and the page URL.
ResultPages ==
    { [href |-> <<>>, url |-> StudioUrl],
      [href |-> <<>>, url |-> <<"h","t","t","p","s",":","/","/","s","t","u","d","i","o",".","y","o","u","t","u","b","e",".","c","o","m","/","v","i","d","e","o","/","a","b","c","/","e","d","i","t">>],
      [href |-> <<"h","t","t","p","s",":","/","/","y","o","u","t","u",".","b","e","/","a","b","c">>, url |-> StudioUrl],
      [href |-> <<"h","t","t","p","s",":","/","/","y","o","u","t","u",".","b","e","/">>, url |-> StudioUrl] }

\* The message of an exception Playwright raises.
PlaywrightError == <<"T","i","m","e","o","u","t"," ","e","x","c","e","e","d","e","d",".">>

\* youtube_client.py 136: the number of "next" clicks.
NextSteps == 3

----------------------------------------------------------------------------
(* ZoomClient.download_recording                                           *)

\* zoom_client.py 211-214
NoButtonMessage ==
    <<"C","o","u","l","d"," ","n","o","t"," ","f","i","n","d"," ","d","o","w","n","l","o","a","d"," ","b","u","t","t","o","n"," ","o","n"," ","r","e","c","o","r","d","i","n","g"," ","d","e","t","a","i","l"," ","p","a","g","e","."," ","T","r","y"," ","d","o","w","n","l","o","a","d","i","n","g"," ","m","a","n","u","a","l","l","y"," ","f","r","o","m"," ","t","h","e"," ","b","r","o","w","s","e","r",".">>

\* modal_probe that goes on to the next selector after a started transfer.
RECURSIVE modal_probe_no_break(_, _)
modal_probe_no_break(env, k) ==
    IF k > Len(ModalSelectors) THEN [log |-> <<>>, started |-> FALSE]
    ELSE LET rest == modal_probe_no_break(env, k + 1)
         IN  IF env.modal[k] = "hidden" THEN rest
             ELSE IF env.modal[k] = "starts"
                 THEN [log |-> <<ModalSelectors[k], "transfer started">> \o rest.log,
                       started |-> TRUE]
             ELSE [log |-> <<ModalSelectors[k]>> \o rest.log, started |-> rest.started]

\* zoom_client.py 220-239: the modal selectors from the k-th on, up to the
\* first whose click is followed by a started transfer.
RECURSIVE modal_probe(_, _)
modal_probe(env, k) ==
    IF k > Len(ModalSelectors) THEN [log |-> <<>>, started |-> FALSE]
    ELSE IF env.modal[k] = "hidden" THEN modal_probe(env, k + 1)
    ELSE IF env.modal[k] = "starts"
        THEN [log |-> <<ModalSelectors[k], "transfer started">>, started |-> TRUE]
    ELSE LET rest == modal_probe(env, k + 1)
         IN  [log |-> <<ModalSelectors[k]>> \o rest.log, started |-> rest.started]

\* zoom_client.py 241-252: the last "Download" button, when there are several.
last_button_probe(env) ==
    IF env.buttons > 1
        THEN IF env.last = "starts"
                 THEN [log |-> <<"last Download button", "transfer started">>, started |-> TRUE]
                 ELSE [log |-> <<"last Download button">>, started |-> FALSE]
        ELSE [log |-> <<>>, started |-> FALSE]

\* zoom_client.py 254-259: the second click on the control found first.
click_again(env) ==
    IF env.again = "starts"
        THEN [log |-> <<"download click again", "transfer started">>, started |-> TRUE]
        ELSE [log |-> <<"download click again">>, started |-> FALSE]

\* zoom_client.py 220-259: the confirmation probes in order, each tried only
\* when confirm_clicked is still False.
confirm_download(env) ==
    LET m == modal_probe(env, 1)
        l == IF m.started THEN [log |-> <<>>, started |-> FALSE] ELSE last_button_probe(env)
        a == IF m.started \/ l.started THEN [log |-> <<>>, started |-> FALSE]
             ELSE click_again(env)
    IN  [log |-> m.log \o l.log \o a.log,
         started |-> m.started \/ l.started \/ a.started]

\* download_recording that clicks before it looks for a visible control.
download_recording_click_first(recording, env) ==
    LET c == confirm_download(env)
    IN  IF ~env.button
            THEN [raised |-> TRUE, file |-> "none", clicked |-> <<"download click">>,
                  message |-> NoButtonMessage]
        ELSE IF ~c.started
            THEN [raised |-> TRUE, file |-> "none",
                  clicked |-> <<"download click">> \o c.log, message |-> PlaywrightError]
        ELSE [raised |-> env.save # "complete", file |-> env.save,
              clicked |-> <<"download click">> \o c.log \o <<"save_as">>,
              message |-> IF env.save = "complete" THEN <<>> ELSE PlaywrightError]

\* zoom_client.py 169-263: raises without a click when no control is visible
\* (199-214); clicks the control (217), runs the confirmation probes and
\* raises when the last of them times out (259); else saves (262), and raises
\* when the save fails.
download_recording(recording, env) ==
    LET c == confirm_download(env)
    IN  IF ~env.button
            THEN [raised |-> TRUE, file |-> "none", clicked |-> <<>>,
                  message |-> NoButtonMessage]
        ELSE IF ~c.started
            THEN [raised |-> TRUE, file |-> "none",
                  clicked |-> <<"download click">> \o c.log, message |-> PlaywrightError]
        ELSE [raised |-> env.save # "complete", file |-> env.save,
              clicked |-> <<"download click">> \o c.log \o <<"save_as">>,
              message |-> IF env.save = "complete" THEN <<>> ELSE PlaywrightError]

\* The temporary directory with the file name written.
write_file(fs, name, f) ==
    [n \in DOMAIN fs \cup {name} |-> IF n = name THEN f ELSE fs[n]]

\* Path.unlink()
unlink(fs, name) == [n \in DOMAIN fs \ {name} |-> fs[n]]

\* youtube_client.py 222-233: the finish controls in the order tried, up to
\* the first whose click succeeds; ok[k] tells whether control k can be clicked.
FinishControls == <<"#done-button", "Publish", "Save">>

\* publish_clicks that tries every control, whatever the earlier ones did.
publish_clicks_all(ok) ==
    [k \in 1..Len(FinishControls) |-> [control |-> FinishControls[k], ok |-> ok[k]]]

publish_clicks(ok) ==
    LET good == {k \in 1..Len(FinishControls) : ok[k]}
        last == IF good = {} THEN Len(FinishControls)
                ELSE CHOOSE k \in good : \A j \in good : k <= j
    IN  [k \in 1..last |-> [control |-> FinishControls[k], ok |-> ok[k]]]

----------------------------------------------------------------------------
(* YouTubeClient.upload_video: the best-effort steps of the wizard         *)

\* One page operation and whether it went through.
Op(do, on, ok) == [do |-> do, on |-> on, ok |-> ok]

\* What a best-effort step did and which warnings it printed.
Outcome(done, warned) == [ops |-> done, warnings |-> warned]

\* youtube_client.py 256-259: the image inputs tried after the file chooser.
ThumbnailInputs == <<"input[type=file][accept*=image]", "#still-picker input[type=file]">>

\* The Studio dialogs upload_video may meet: the way the thumbnail can be
\* set, how far the playlist selector gets, whether the "Done" control of
\* the playlist dialog and the Escape key respond, the audience and the
\* visibility control that can be clicked, and the "next" clicks that work.
Studios ==
    [thumbnail : {"chooser", ThumbnailInputs[1], ThumbnailInputs[2], "none"},
     playlist : {"no_selector", "no_label", "label_click_fails", "selected"},
     done : BOOLEAN,
     escape : BOOLEAN,
     kids : {"name", "label", "none"},
     next : [1..NextSteps -> BOOLEAN],
     visibility : {"name", "role", "none"}]

\* A dialog where every first probe finds its element.
StudioWorks ==
    [thumbnail |-> "chooser", playlist |-> "selected", done |-> TRUE,
     escape |-> TRUE, kids |-> "name", next |-> [k \in 1..NextSteps |-> TRUE],
     visibility |-> "name"]

\* A dialog that has drifted: no probe of a best-effort step finds anything.
StudioDrifted ==
    [thumbnail |-> "none", playlist |-> "no_selector", done |-> FALSE,
     escape |-> FALSE, kids |-> "none", next |-> [k \in 1..NextSteps |-> FALSE],
     visibility |-> "none"]

\* The dialogs the runs of the orchestrator meet.
StudioSample == {StudioWorks, StudioDrifted}

Screenshot(path) == Op("screenshot", path, TRUE)

\* youtube_client.py 241-269
set_thumbnail(s) ==
    LET chooser == Op("click", "Upload thumbnail", s.thumbnail = "chooser")
        works == {k \in 1..Len(ThumbnailInputs) : ThumbnailInputs[k] = s.thumbnail}
        last == IF works = {} THEN Len(ThumbnailInputs)
                ELSE CHOOSE k \in works : \A j \in works : k <= j
        inputs == [k \in 1..last |->
                      Op("set_input_files", ThumbnailInputs[k], k \in works)]
    IN  IF chooser.ok THEN Outcome(<<chooser>>, <<>>)
        ELSE IF works # {} THEN Outcome(<<chooser>> \o inputs, <<>>)
        ELSE Outcome(<<chooser>> \o inputs \o <<Screenshot("yt_debug_thumbnail.png")>>,
                     <<"Could not set thumbnail">>)

\* youtube_client.py 25-31: the exception of a failed key press is swallowed.
dismiss_overlays(s) == <<Op("press", "Escape", s.escape)>>

\* youtube_client.py 286-291: close the playlist dialog.
close_playlist_dialog(s) ==
    IF s.done THEN <<Op("click", "Done", TRUE)>>
    ELSE <<Op("click", "Done", FALSE)>> \o dismiss_overlays(s)

\* set_playlist whose handler prints the warning and returns.
set_playlist_no_dismiss(s) ==
    LET open == Op("click", "ytcp-video-metadata-playlists", s.playlist # "no_selector")
        label == Op("click", "label", s.playlist = "selected")
    IN  IF ~open.ok
            THEN Outcome(<<open>>, <<"Could not set playlist">>)
        ELSE IF s.playlist = "no_label"
            THEN Outcome(<<open>> \o close_playlist_dialog(s), <<"Playlist not found">>)
        ELSE IF ~label.ok
            THEN Outcome(<<open, label>>, <<"Could not set playlist">>)
        ELSE Outcome(<<open, label>> \o close_playlist_dialog(s), <<>>)

\* youtube_client.py 271-297
set_playlist(s) ==
    LET open == Op("click", "ytcp-video-metadata-playlists", s.playlist # "no_selector")
        label == Op("click", "label", s.playlist = "selected")
    IN  IF ~open.ok
            THEN Outcome(<<open>> \o dismiss_overlays(s), <<"Could not set playlist">>)
        ELSE IF s.playlist = "no_label"
            THEN Outcome(<<open>> \o close_playlist_dialog(s), <<"Playlist not found">>)
        ELSE IF ~label.ok
            THEN Outcome(<<open, label>> \o dismiss_overlays(s), <<"Could not set playlist">>)
        ELSE Outcome(<<open, label>> \o close_playlist_dialog(s), <<>>)

\* A control clicked by name, then by its label, then given up with a warning.
click_with_fallback(way, name, label, warning, shots) ==
    IF way = "name" THEN Outcome(<<Op("click", name, TRUE)>>, <<>>)
    ELSE IF way \in {"label", "role"}
        THEN Outcome(<<Op("click", name, FALSE), Op("click", label, TRUE)>>, <<>>)
    ELSE Outcome(<<Op("click", name, FALSE), Op("click", label, FALSE)>> \o shots,
                 <<warning>>)

\* youtube_client.py 118-133
set_audience(s) ==
    click_with_fallback(s.kids, "NOT_MADE_FOR_KIDS", "No, it's not made for kids",
                        "Could not set 'made for kids'", <<>>)

\* click_next that gives up the loop's later passes after a failed click.
click_next_once(s, k) ==
    IF \E j \in 1..(k - 1) : ~s.next[j] THEN Outcome(<<>>, <<>>)
    ELSE IF s.next[k] THEN Outcome(<<Op("click", "#next-button", TRUE)>>, <<>>)
    ELSE Outcome(<<Op("click", "#next-button", FALSE), Screenshot("yt_debug_step.png")>>,
                 <<"Could not click Next">>)

\* youtube_client.py 137-142: the click of pass k of the "next" loop.
click_next(s, k) ==
    IF s.next[k] THEN Outcome(<<Op("click", "#next-button", TRUE)>>, <<>>)
    ELSE Outcome(<<Op("click", "#next-button", FALSE), Screenshot("yt_debug_step.png")>>,
                 <<"Could not click Next">>)

\* youtube_client.py 144-152
set_visibility(s) ==
    click_with_fallback(s.visibility, "PUBLIC", "Public", "Could not set visibility",
                        <<Screenshot("yt_debug_visibility.png")>>)

----------------------------------------------------------------------------
(* cli.run, one action per step                                            *)

NoDate == [year |-> 0, month |-> 0, day |-> 0]

\* The Playwright driver and context, each client's _page and the number of
\* open pages each client has created.
NoBrowser ==
    [pw |-> "none", context |-> "none", zoom_page |-> "none", yt_page |-> "none",
     zoom_open |-> 0, yt_open |-> 0]

\* zoom_client.py 27-30
zoom_get_page(b) ==
    IF b.zoom_page = "none"
        THEN [b EXCEPT !.zoom_page = "page", !.zoom_open = @ + 1]
        ELSE b

\* zoom_close_page that leaves the page open.
zoom_close_page_forgotten(b) == b

\* zoom_client.py 265-268
zoom_close_page(b) ==
    IF b.zoom_page # "none"
        THEN [b EXCEPT !.zoom_page = "none", !.zoom_open = @ - 1]
        ELSE b

\* youtube_client.py 20-23
yt_get_page(b) ==
    IF b.yt_page = "none"
        THEN [b EXCEPT !.yt_page = "page", !.yt_open = @ + 1]
        ELSE b

\* youtube_client.py 368-371
yt_close_page(b) ==
    IF b.yt_page # "none"
        THEN [b EXCEPT !.yt_page = "none", !.yt_open = @ - 1]
        ELSE b

\* cli.py 207-208: closing the context closes every page left open.
close_context(b) ==
    [b EXCEPT !.context = "closed", !.pw = "stopped", !.zoom_open = 0, !.yt_open = 0]

\* The state of a process that has not started its run.
RunIdle ==
    /\ config = [thumbnail_file |-> <<>>, playlist_name |-> <<>>]
    /\ selected = <<>>
    /\ title = <<>>
    /\ upload_log = EmptyLog
    /\ result = <<>>
    /\ pending = "none"
    /\ exit_code = <<>>
    /\ console = <<>>
    /\ trace = <<>>
    /\ browser = NoBrowser
    /\ step = 0
    /\ yt_dom = NoDom
    /\ upload_error = <<>>
    /\ error = <<>>
    /\ clicks = <<>>
    /\ choice = <<>>
    /\ ops = <<>>
    /\ date_input = <<>>
    /\ date_today = NoDate
    /\ detail = NoDetail

Init ==
    /\ pc = "start"
    /\ page = <<>>
    /\ recording_date = NoDate
    /\ recordings = <<>>
    /\ RunIdle
    /\ ledger = [exists |-> FALSE, data |-> EmptyLog]
    /\ files = EmptyLog
    /\ ledger0 = ledger
    /\ files0 = files
    /\ studio \in StudioSample

\* SysExit as if the process ended at once, without the finally clause.
SysExit_without_finally(code, message) ==
    /\ pc' = "exited"
    /\ pending' = code
    /\ console' = Append(console, message)

\* sys.exit(code) inside the try block: SystemExit travels to the finally clause.
SysExit(code, message) ==
    /\ pc' = "finally"
    /\ pending' = code
    /\ console' = Append(console, message)

\* cli.py 85, config_loader.py 30-37
LoadConfig ==
    /\ pc = "start"
    /\ \/ /\ \E c \in Configs : config' = c
          /\ pc' = "prompt_date"
          /\ UNCHANGED <<exit_code, console>>
       \/ /\ pc' = "exited"
          /\ exit_code' = <<1>>
          /\ console' = Append(console, "config not found")
          /\ UNCHANGED config
    /\ UNCHANGED <<page, recording_date, recordings, selected, title, upload_log,
                   ledger, files, result, pending, trace, browser, step, yt_dom,
                   upload_error, error, clicks, ledger0, files0,
                   studio, choice, ops,
                   date_input, date_today, detail>>

\* cli.py 88-89, 37-47
PromptDateOf(text, today) ==
    /\ pc = "prompt_date"
    /\ LET d == parse_date_input(text, today)
       IN  IF d = ParseError
               THEN /\ pc' = "exited"
                    /\ exit_code' = <<1>>
                    /\ console' = Append(console, "cannot parse date")
                    /\ UNCHANGED recording_date
               ELSE /\ pc' = "launch"
                    /\ recording_date' = d
                    /\ UNCHANGED <<exit_code, console>>
    /\ UNCHANGED <<page, recordings, config, selected, title, upload_log,
                   ledger, files, result, pending, trace, browser, step, yt_dom,
                   upload_error, error, clicks, ledger0, files0,
                   studio, choice, ops,
                   date_input, date_today, detail>>

PromptDate == \E text \in DateTexts, today \in Todays : PromptDateOf(text, today)

\* cli.py 92-104
Launch ==
    /\ pc = "launch"
    /\ \/ /\ pc' = "zoom_login"
          /\ browser' = [browser EXCEPT !.pw = "started", !.context = "open"]
          /\ trace' = Append(trace, "launch")
          /\ UNCHANGED exit_code
       \/ /\ pc' = "exited"
          /\ exit_code' = <<1>>
          /\ UNCHANGED <<browser, trace>>
    /\ UNCHANGED <<page, recording_date, recordings, config, selected, title,
                   upload_log, ledger, files, result, pending, console, step,
                   yt_dom, upload_error, error, clicks, ledger0, files0,
                   studio, choice, ops,
                   date_input, date_today, detail>>

\* cli.py 108-111, zoom_client.py 50-74
ZoomLogin ==
    /\ pc = "zoom_login"
    /\ browser' = zoom_get_page(browser)
    /\ trace' = Append(trace, "zoom.ensure_logged_in")
    /\ \/ /\ pc' = "fetch"
          /\ console' = Append(console, "Zoom ready")
          /\ UNCHANGED pending
       \/ /\ pc' = "finally"
          /\ pending' = "exception"
          /\ UNCHANGED console
    /\ UNCHANGED <<page, recording_date, recordings, config, selected, title,
                   upload_log, ledger, files, result, exit_code, step, yt_dom,
                   upload_error, error, clicks, ledger0, files0,
                   studio, choice, ops,
                   date_input, date_today, detail>>

\* cli.py 113-122
FetchRecordings ==
    /\ pc = "fetch"
    /\ trace' = Append(trace, "zoom.list_recordings")
    /\ browser' = zoom_get_page(browser)
    /\ \/ \E p \in RunPages :
             LET recs == list_recordings(p, recording_date)
             IN  /\ recordings' = recs
                 /\ IF no_recordings(recs)
                        THEN SysExit("exit0", "No recordings found")
                        ELSE /\ pc' = "select"
                             /\ UNCHANGED <<pending, console>>
       \/ /\ SysExit("exit1", "Failed to fetch recordings")
          /\ UNCHANGED recordings
    /\ UNCHANGED <<page, recording_date, config, selected, title, upload_log,
                   ledger, files, result, exit_code, step, yt_dom,
                   upload_error, error, clicks, ledger0, files0,
                   studio, choice, ops,
                   date_input, date_today, detail>>

\* selected_recording that always takes the first recording.
selected_recording_first(recs, idx) == recs[1]

\* cli.py 77, 131: recordings[idx - 1] of the zero-based list; Python counts
\* a negative index from the end.
selected_recording(recs, idx) ==
    IF idx < 1 THEN recs[Len(recs) + idx] ELSE recs[idx]

\* invalid_selection without the lower limit.
invalid_selection_no_lower(idx, n) == idx > n

\* cli.py 74
invalid_selection(idx, n) == idx < 1 \/ idx > n

\* cli.py 124-135, 64-77
SelectRecording ==
    /\ pc = "select"
    /\ IF Len(recordings) = 1
          THEN /\ selected' = <<recordings[1]>>
               /\ title' = make_title(recording_date)
               /\ pc' = "check_log"
               /\ console' = Append(console, "Found")
               /\ UNCHANGED <<pending, trace, choice>>
          ELSE \E idx \in 0..MaxChoice :
                  /\ trace' = Append(trace, "select prompt")
                  /\ choice' = <<idx>>
                  /\ IF invalid_selection(idx, Len(recordings))
                        THEN /\ SysExit("exit1", "Invalid selection")
                             /\ UNCHANGED <<selected, title>>
                        ELSE /\ selected' = <<selected_recording(recordings, idx)>>
                             /\ title' = make_title(recording_date)
                             /\ pc' = "check_log"
                             /\ UNCHANGED <<pending, console>>
    /\ UNCHANGED <<page, recording_date, recordings, config, upload_log, ledger,
                   files, result, exit_code, browser, step, yt_dom, upload_error,
                   error, clicks, ledger0, files0, studio, ops,
                   date_input, date_today, detail>>

\* cli.py 137-144
CheckUploaded ==
    /\ pc = "check_log"
    /\ upload_log' = load_upload_log(ledger)
    /\ IF already_uploaded(title, load_upload_log(ledger))
          THEN /\ trace' = Append(trace, "confirm prompt")
               /\ \E again \in BOOLEAN :
                     IF again
                        THEN /\ pc' = "download"
                             /\ console' = Append(console, "Already uploaded")
                             /\ UNCHANGED pending
                        ELSE /\ pc' = "finally"
                             /\ pending' = "exit0"
                             /\ console' = console \o <<"Already uploaded", "Aborted">>
          ELSE /\ pc' = "download"
               /\ UNCHANGED <<pending, console, trace>>
    /\ UNCHANGED <<page, recording_date, recordings, config, selected, title,
                   ledger, files, result, exit_code, browser, step, yt_dom,
                   upload_error, error, clicks, ledger0, files0,
                   studio, choice, ops,
                   date_input, date_today, detail>>

\* cli.py 146-163
DownloadOf(env) ==
    /\ pc = "download"
    /\ IF dest_name(title) \in DOMAIN files
          THEN /\ pc' = "close_zoom"
               /\ console' = Append(console, "File already exists, skipping download")
               /\ UNCHANGED <<files, pending, trace, browser, error>>
          ELSE    LET out == download_recording(selected[1], env)
                  IN  /\ trace' = Append(trace, "zoom.download_recording") \o out.clicked
                      /\ browser' = zoom_get_page(browser)
                      /\ error' = out.message
                      /\ files' = IF out.file = "none" THEN files
                                  ELSE write_file(files, dest_name(title),
                                          [from |-> selected[1].download_url,
                                           size |-> out.file])
                      /\ IF out.raised
                            THEN SysExit("exit1", "Download failed")
                            ELSE /\ pc' = "close_zoom"
                                 /\ console' = Append(console, "Downloaded")
                                 /\ UNCHANGED pending
    /\ UNCHANGED <<page, recording_date, recordings, config, selected, title,
                   upload_log, ledger, result, exit_code, step, yt_dom,
                   upload_error, clicks, ledger0, files0,
                   studio, choice, ops,
                   date_input, date_today, detail>>

Download == \E env \in DownloadEnvs : DownloadOf(env)

\* cli.py 165, zoom_client.py 265-268
CloseZoomPage ==
    /\ pc = "close_zoom"
    /\ pc' = "yt_login"
    /\ browser' = zoom_close_page(browser)
    /\ trace' = Append(trace, "zoom.close_page")
    /\ UNCHANGED <<page, recording_date, recordings, config, selected, title,
                   upload_log, ledger, files, result, pending, exit_code, console,
                   step, yt_dom, upload_error, error, clicks, ledger0, files0,
                   studio, choice, ops,
                   date_input, date_today, detail>>

\* cli.py 168-172, youtube_client.py 33-47
YouTubeLogin ==
    /\ pc = "yt_login"
    /\ browser' = yt_get_page(browser)
    /\ trace' = Append(trace, "yt.ensure_logged_in")
    /\ \/ /\ pc' = "yt_open"
          /\ console' = Append(console, "YouTube Studio ready")
          /\ UNCHANGED pending
       \/ /\ pc' = "finally"
          /\ pending' = "exception"
          /\ UNCHANGED console
    /\ UNCHANGED <<page, recording_date, recordings, config, selected, title,
                   upload_log, ledger, files, result, exit_code, step, yt_dom,
                   upload_error, error, clicks, ledger0, files0,
                   studio, choice, ops,
                   date_input, date_today, detail>>

----------------------------------------------------------------------------
(* YouTubeClient.upload_video, one action per wizard step, as cli.run      *)
(* calls it (cli.py 176-189)                                               *)

\* The variables upload_video and its caller's handler leave alone.
outside_upload == <<page, recording_date, recordings, config, selected, title,
                    upload_log, ledger, files, exit_code, ledger0, files0,
                    studio, choice, date_input, date_today, detail>>

\* An exception leaves upload_video; cli.py 187-189 prints it and exits 1.
UploadRaise(message) ==
    /\ error' = message
    /\ SysExit("exit1", "Upload failed")

\* A wizard step that either completes, with the operations done, or raises.
WizardStep(from, to, done) ==
    /\ pc = from
    /\ \/ /\ pc' = to
          /\ ops' = ops \o done
          /\ UNCHANGED <<error, pending, console>>
       \/ /\ UploadRaise(PlaywrightError)
          /\ UNCHANGED ops
    /\ UNCHANGED <<result, step, yt_dom, upload_error, clicks>>
    /\ UNCHANGED outside_upload

\* youtube_client.py 60-87: open Studio and the upload dialog.
UploadOpen ==
    /\ WizardStep("yt_open", "yt_file", <<Op("goto", "studio.youtube.com", TRUE)>>)
    /\ trace' = Append(trace, "yt.upload_video")
    /\ browser' = yt_get_page(browser)

\* youtube_client.py 89-94: choose the file, wait for the details form.
UploadSetFile ==
    /\ WizardStep("yt_file", "yt_title", <<Op("set_input_files", "input[type=file]", TRUE)>>)
    /\ UNCHANGED <<trace, browser>>

\* youtube_client.py 98-103
UploadTitle ==
    /\ WizardStep("yt_title", "yt_description", <<Op("type", "#title-textarea", TRUE)>>)
    /\ UNCHANGED <<trace, browser>>

\* youtube_client.py 105-108
UploadDescription ==
    /\ WizardStep("yt_description", "yt_thumbnail", <<Op("type", "#description-textarea", TRUE)>>)
    /\ UNCHANGED <<trace, browser>>

\* OptionalStep that lets the failure of its probes leave upload_video.
OptionalStep_strict(from, to, outcome) ==
    /\ pc = from
    /\ ops' = ops \o outcome.ops
    /\ IF outcome.warnings # <<>>
          THEN UploadRaise(PlaywrightError)
          ELSE /\ pc' = to
               /\ UNCHANGED <<pending, console, error>>
    /\ UNCHANGED <<result, trace, browser, yt_dom, upload_error, clicks>>
    /\ UNCHANGED outside_upload

\* A wizard step that is best effort: what it did is logged, what it could
\* not do is printed as a warning, and the wizard goes on.
OptionalStep(from, to, outcome) ==
    /\ pc = from
    /\ pc' = to
    /\ ops' = ops \o outcome.ops
    /\ console' = console \o outcome.warnings
    /\ UNCHANGED <<result, pending, trace, browser, yt_dom, upload_error, error, clicks>>
    /\ UNCHANGED outside_upload

\* youtube_client.py 110-112
UploadThumbnail ==
    /\ OptionalStep("yt_thumbnail", "yt_playlist",
                    IF config.thumbnail_file # <<>> THEN set_thumbnail(studio)
                    ELSE Outcome(<<>>, <<>>))
    /\ UNCHANGED step

\* youtube_client.py 114-116
UploadPlaylist ==
    /\ OptionalStep("yt_playlist", "yt_audience",
                    IF config.playlist_name # <<>> THEN set_playlist(studio)
                    ELSE Outcome(<<>>, <<>>))
    /\ UNCHANGED step

\* youtube_client.py 118-133
UploadAudience ==
    /\ OptionalStep("yt_audience", "yt_next", set_audience(studio))
    /\ UNCHANGED step

\* youtube_client.py 135-142: one pass of the loop over the "next" clicks.
UploadNext ==
    /\ step < NextSteps
    /\ step' = step + 1
    /\ OptionalStep("yt_next", IF step + 1 = NextSteps THEN "yt_visibility" ELSE "yt_next",
                    click_next(studio, step + 1))

\* youtube_client.py 144-154
UploadVisibility ==
    /\ OptionalStep("yt_visibility", "yt_poll", set_visibility(studio))
    /\ UNCHANGED step

\* youtube_client.py 156-206: one poll of the page, or the timeout of the wait.
UploadPoll ==
    /\ pc = "yt_poll"
    /\ \/ \E dom \in Doms :
             /\ yt_dom' = dom
             /\ upload_error' = poll_function(dom, upload_error).note
             /\ pc' = IF poll_function(dom, upload_error).fired THEN "yt_check" ELSE "yt_poll"
             /\ UNCHANGED <<error, pending, console, ops>>
       \/ \E progress \in StatusTexts :
             /\ UploadRaise(timeout_message(progress))
             /\ ops' = Append(ops, Screenshot("yt_debug_upload_timeout.png"))
             /\ UNCHANGED <<yt_dom, upload_error>>
    /\ UNCHANGED <<result, trace, browser, step, clicks>>
    /\ UNCHANGED outside_upload

\* youtube_client.py 208-219: the wait ended; was it on an error?
UploadCheckError ==
    /\ pc = "yt_check"
    /\ IF upload_error # <<>>
          THEN /\ \E status_text \in StatusTexts :
                     UploadRaise(upload_error_message(upload_error, status_text))
               /\ ops' = Append(ops, Screenshot("yt_debug_upload_error.png"))
          ELSE /\ pc' = "yt_publish"
               /\ UNCHANGED <<error, pending, console, ops>>
    /\ UNCHANGED <<result, trace, browser, step, yt_dom, upload_error, clicks>>
    /\ UNCHANGED outside_upload

\* youtube_client.py 221-233: click the finish control, with its fallbacks.
UploadPublish ==
    /\ pc = "yt_publish"
    /\ \E ok \in [1..Len(FinishControls) -> BOOLEAN] :
          /\ clicks' = publish_clicks(ok)
          /\ IF \E k \in 1..Len(publish_clicks(ok)) : publish_clicks(ok)[k].ok
                THEN /\ pc' = "yt_extract"
                     /\ ops' = ops \o [k \in 1..Len(publish_clicks(ok)) |->
                                          Op("click", publish_clicks(ok)[k].control,
                                             publish_clicks(ok)[k].ok)]
                     /\ UNCHANGED <<error, pending, console>>
                ELSE /\ UploadRaise(PublishMessage)
                     /\ ops' = ops \o [k \in 1..Len(publish_clicks(ok)) |->
                                          Op("click", publish_clicks(ok)[k].control, FALSE)]
                                   \o <<Screenshot("yt_debug_publish.png")>>
    /\ UNCHANGED <<result, trace, browser, step, yt_dom, upload_error>>
    /\ UNCHANGED outside_upload

\* youtube_client.py 235-239: read the identifier and return the result.
UploadExtract ==
    /\ pc = "yt_extract"
    /\ \E p \in ResultPages :
          /\ yt_dom' = [NoDom EXCEPT !.href = p.href, !.url = p.url]
          /\ result' = <<[video_id |-> extract_video_id(p.href, p.url), title |-> title]>>
    /\ pc' = "save_log"
    /\ UNCHANGED <<pending, console, trace, browser, step, upload_error, error, clicks, ops>>
    /\ UNCHANGED outside_upload

----------------------------------------------------------------------------
(* cli.run after the upload                                                *)

\* cli.py 191-204
SaveLog ==
    /\ pc = "save_log"
    /\ upload_log' = set_item(upload_log, title, result_url(result[1]))
    /\ ledger' = save_upload_log(set_item(upload_log, title, result_url(result[1])))
    /\ console' = Append(console, IF result[1].video_id # UnknownId
                                     THEN "Done! Video URL"
                                     ELSE "Upload completed but could not extract video URL")
    /\ browser' = yt_close_page(browser)
    /\ trace' = trace \o <<"save_upload_log", "yt.close_page">>
    /\ pc' = "finally"
    /\ UNCHANGED <<page, recording_date, recordings, config, selected, title, files,
                   result, pending, exit_code, step, yt_dom, upload_error, error,
                   clicks, ledger0, files0,
                   studio, choice, ops,
                   date_input, date_today, detail>>

\* cli.py 206-208: the finally clause, then the exit that was travelling.
Finally ==
    /\ pc = "finally"
    /\ browser' = close_context(browser)
    /\ trace' = trace \o <<"context.close", "pw.stop">>
    /\ pc' = after_finally(pending)
    /\ exit_code' = IF after_finally(pending) = "cleanup" THEN exit_code
                    ELSE IF pending = "exit0" THEN <<0>> ELSE <<1>>
    /\ UNCHANGED <<page, recording_date, recordings, config, selected, title,
                   upload_log, ledger, files, result, pending, console, step,
                   yt_dom, upload_error, error, clicks, ledger0, files0,
                   studio, choice, ops,
                   date_input, date_today, detail>>

\* cli.py 210-212
Cleanup ==
    /\ pc = "cleanup"
    /\ pc' = "exited"
    /\ trace' = Append(trace, "unlink")
    /\ IF dest_name(title) \in DOMAIN files
          THEN /\ files' = unlink(files, dest_name(title))
               /\ console' = Append(console, "Cleaned up")
               /\ exit_code' = <<0>>
          ELSE /\ exit_code' = <<1>>
               /\ UNCHANGED <<files, console>>
    /\ UNCHANGED <<page, recording_date, recordings, config, selected, title,
                   upload_log, ledger, result, pending, browser, step, yt_dom,
                   upload_error, error, clicks, ledger0, files0,
                   studio, choice, ops,
                   date_input, date_today, detail>>

\* The process has ended; the user starts the program again.
NextRun ==
    /\ pc = "exited"
    /\ pc' = "start"
    /\ recording_date' = NoDate
    /\ recordings' = <<>>
    /\ config' = [thumbnail_file |-> <<>>, playlist_name |-> <<>>]
    /\ selected' = <<>>
    /\ title' = <<>>
    /\ upload_log' = EmptyLog
    /\ result' = <<>>
    /\ pending' = "none"
    /\ exit_code' = <<>>
    /\ console' = <<>>
    /\ trace' = <<>>
    /\ browser' = NoBrowser
    /\ step' = 0
    /\ yt_dom' = NoDom
    /\ upload_error' = <<>>
    /\ error' = <<>>
    /\ clicks' = <<>>
    /\ ledger0' = ledger
    /\ files0' = files
    /\ choice' = <<>>
    /\ ops' = <<>>
    /\ UNCHANGED <<page, ledger, files, studio, date_input, date_today, detail>>

Next ==
    \/ LoadConfig \/ PromptDate \/ Launch \/ ZoomLogin \/ FetchRecordings
    \/ SelectRecording \/ CheckUploaded \/ Download \/ CloseZoomPage
    \/ YouTubeLogin \/ UploadOpen \/ UploadSetFile \/ UploadTitle
    \/ UploadDescription \/ UploadThumbnail \/ UploadPlaylist \/ UploadAudience
    \/ UploadNext \/ UploadVisibility \/ UploadPoll \/ UploadCheckError
    \/ UploadPublish \/ UploadExtract \/ SaveLog \/ Finally \/ Cleanup \/ NextRun

Spec == Init /\ [][Next]_vars

----------------------------------------------------------------------------
(* SpecUpload: upload_video as cli.run calls it (cli.py 176-184), on every *)
(* Studio dialog.                                                          *)

\* The run up to the call: one recording found, downloaded, Studio ready.
\* The parts of the dialog a configuration never touches are left as they work.
UploadDate == [year |-> 2026, month |-> 2, day |-> 3]

InitUpload ==
    /\ pc = "yt_open"
    /\ page = <<>>
    /\ recording_date = UploadDate
    /\ recordings = list_recordings(<<EntryA>>, UploadDate)
    /\ config \in Configs
    /\ selected = <<recordings[1]>>
    /\ title = make_title(UploadDate)
    /\ upload_log = EmptyLog
    /\ ledger = [exists |-> FALSE, data |-> EmptyLog]
    /\ files = write_file(EmptyLog, dest_name(title),
                          [from |-> selected[1].download_url, size |-> "complete"])
    /\ result = <<>>
    /\ pending = "none"
    /\ exit_code = <<>>
    /\ console = <<"Zoom ready", "Found", "Downloaded", "YouTube Studio ready">>
    /\ trace = <<"launch", "zoom.ensure_logged_in", "zoom.list_recordings",
                 "zoom.download_recording", "download click",
                 "download click again", "transfer started", "save_as",
                 "zoom.close_page",
                 "yt.ensure_logged_in">>
    /\ browser = yt_get_page(zoom_close_page(zoom_get_page(
                     [NoBrowser EXCEPT !.pw = "started", !.context = "open"])))
    /\ step = 0
    /\ yt_dom = NoDom
    /\ upload_error = <<>>
    /\ error = <<>>
    /\ clicks = <<>>
    /\ ledger0 = ledger
    /\ files0 = EmptyLog
    /\ studio \in Studios
    /\ config.thumbnail_file = <<>> => studio.thumbnail = StudioWorks.thumbnail
    /\ config.playlist_name = <<>> =>
          /\ studio.playlist = StudioWorks.playlist
          /\ studio.done = StudioWorks.done
          /\ studio.escape = StudioWorks.escape
    /\ choice = <<>>
    /\ ops = <<>>
    /\ date_input = <<>>
    /\ date_today = NoDate
    /\ detail = NoDetail

NextUpload ==
    \/ UploadOpen \/ UploadSetFile \/ UploadTitle \/ UploadDescription
    \/ UploadThumbnail \/ UploadPlaylist \/ UploadAudience \/ UploadNext
    \/ UploadVisibility \/ UploadPoll \/ UploadCheckError \/ UploadPublish
    \/ UploadExtract

SpecUpload == InitUpload /\ [][NextUpload]_vars

----------------------------------------------------------------------------
(* SpecList: list_recordings applied to every page and date.               *)

InitList ==
    /\ pc = "list"
    /\ page \in Pages
    /\ recording_date \in Dates
    /\ recordings = <<>>
    /\ RunIdle
    /\ ledger = [exists |-> FALSE, data |-> EmptyLog]
    /\ files = EmptyLog
    /\ ledger0 = ledger
    /\ files0 = files
    /\ studio = StudioWorks

ListRecordings ==
    /\ pc = "list"
    /\ recordings' = list_recordings(page, recording_date)
    /\ pc' = "listed"
    /\ UNCHANGED <<page, recording_date>>
    /\ UNCHANGED run_vars

NextList == ListRecordings

SpecList == InitList /\ [][NextList]_vars

----------------------------------------------------------------------------
(* Properties of list_recordings (SpecList).                               *)

Listed == pc = "listed"

\* The link at position i of the page produced a Recording of the result.
Included(i) ==
    \E k \in 1..Len(recordings) : recordings[k].download_url = page[i].href

\* The number of non-empty lines of link i's rendered text.
LineCount(i) == Len(entry_lines(page[i].text))

\* The five rendered forms of a date, as a set of texts.
RenderedForms(d) == {date_patterns(d)[p] : p \in 1..Len(date_patterns(d))}

\* A line that shows a date: a rendered form of a date, or a text the date
\* pattern recognises.
ShowsDate(line) == date_line_re(line) \/ \E d \in Dates : line \in RenderedForms(d)

\* The date line of link i: its first line that shows a date (<<>> if none).
DateLine(i) ==
    LET ls == clean_lines(entry_lines(page[i].text))
        at == {k \in 1..Len(ls) : ShowsDate(ls[k])}
    IN  IF at = {} THEN <<>> ELSE ls[CHOOSE k \in at : \A j \in at : k <= j]

\* The fields the locator reads from link i.
Fields(i) == classify(clean_lines(entry_lines(page[i].text)))

\* The Recording built from link i.
RecordingOf(i) ==
    [topic |-> Fields(i).topic, date |-> Fields(i).date_text,
     duration |-> Fields(i).duration, file_size |-> <<>>,
     download_url |-> page[i].href]

\* C1: every entry with more than 2 non-empty lines whose date line is one of
\* the five rendered forms of the requested date is included in the result,
\* unless an earlier entry with the same topic and date line was included.
C1_EveryRenderedFormIncluded ==
    Listed =>
        \A i \in 1..Len(page) :
            (LineCount(i) > 2 /\ DateLine(i) \in RenderedForms(recording_date))
                => \/ Included(i)
                   \/ \E j \in 1..(i - 1) :
                        /\ Included(j)
                        /\ Fields(j).topic = Fields(i).topic
                        /\ DateLine(j) = DateLine(i)

\* C2: an entry whose date line is not one of the five rendered forms of the
\* requested date never appears in the result.
C2_OtherDateLinesExcluded ==
    Listed =>
        \A i \in 1..Len(page) :
            DateLine(i) \notin RenderedForms(recording_date) => ~Included(i)

\* C3: no two Recordings of the result share a (topic, date line) pair; each
\* is built from the first entry (in link order) that has its pair; and the
\* Recordings keep the order of those entries.
C3_DedupFirstOccurrenceInOrder ==
    Listed =>
        /\ \A k, l \in 1..Len(recordings) :
              (k # l) => <<recordings[k].topic, recordings[k].date>>
                            # <<recordings[l].topic, recordings[l].date>>
        /\ \A k \in 1..Len(recordings) :
              \E i \in 1..Len(page) :
                  /\ recordings[k] = RecordingOf(i)
                  /\ \A j \in 1..(i - 1) :
                        LineCount(j) > 2 =>
                            <<Fields(j).topic, Fields(j).date_text>>
                                # <<Fields(i).topic, Fields(i).date_text>>
        /\ \A k, l \in 1..Len(recordings) :
              (k < l) =>
                  \E i, j \in 1..Len(page) :
                      /\ i < j
                      /\ recordings[k].download_url = page[i].href
                      /\ recordings[l].download_url = page[j].href

\* Two entries with one (topic, date line) pair and different durations were
\* listed, and only the first is in the result.
C3_Witness ==
    /\ Listed
    /\ Len(page) = 2
    /\ LineCount(1) > 2 /\ LineCount(2) > 2
    /\ Fields(1).topic = Fields(2).topic
    /\ Fields(1).date_text = Fields(2).date_text
    /\ Fields(1).duration # Fields(2).duration
    /\ recordings = <<RecordingOf(1)>>

\* C4: an entry whose rendered text has 2 or fewer non-empty lines yields no
\* Recording, whatever its lines contain.
C4_ShortEntriesSkipped ==
    Listed => \A i \in 1..Len(page) : LineCount(i) <= 2 => ~Included(i)

\* A two-line entry whose date line matches the requested date was listed
\* next to a full entry that was kept.
C4_Witness ==
    /\ Listed
    /\ \E i, j \in 1..Len(page) :
          /\ LineCount(i) = 2
          /\ DateLine(i) \in RenderedForms(recording_date)
          /\ ~Included(i)
          /\ Included(j)

----------------------------------------------------------------------------
(* Properties of a run and of upload_video (Spec).                         *)

\* The operation e happened in this run.
InTrace(e) == \E k \in 1..Len(trace) : trace[k] = e

\* The message m was printed in this run.
Printed(m) == \E k \in 1..Len(console) : console[k] = m

\* The destination file of this run (cli.py 147-148).
DestPath == dest_name(title)

\* The processing wait of upload_video has ended.
WaitEnded == pc \in {"yt_check", "yt_publish", "yt_extract", "save_log",
                     "finally", "cleanup", "exited"}

\* upload_video raised: its caller printed the failure.
UploadFailed == Printed("Upload failed")

AbandonedPhrase == <<"p","r","o","c","e","s","s","i","n","g"," ","a","b","a","n","d","o","n","e","d">>

\* C5: when the processing poll observes page text containing "processing
\* abandoned", upload_video fails, the message of the failure contains that
\* phrase, and no finish control is clicked.
C5_AbandonedFailsNamingThePhrase ==
    (WaitEnded /\ contains(lower(yt_dom.body), AbandonedPhrase)) =>
        /\ pc \in {"yt_check", "finally", "exited"}
        /\ result = <<>>
        /\ clicks = <<>>
        /\ pc # "yt_check" =>
              /\ UploadFailed
              /\ contains(lower(error), AbandonedPhrase)

UnknownUrl == <<"h","t","t","p","s",":","/","/","y","o","u","t","u",".","b","e","/","u","n","k","n","o","w","n">>

\* The page after the publish click shows neither an identifier link nor a
\* "/video/" part in its URL, and upload_video has returned.
NoIdentifierFound ==
    /\ result # <<>>
    /\ yt_dom.href = <<>>
    /\ ~contains(yt_dom.url, <<"/","v","i","d","e","o","/">>)

\* C6: when the publish click succeeded and no identifier link or URL pattern
\* is present, upload_video returns video_id "unknown", the orchestrator
\* writes ledger[title] = the URL of that result and prints a warning, not
\* an error, and the run ends with code 0.
C6_UnknownIdIsSoftSuccess ==
    NoIdentifierFound =>
        /\ result[1].video_id = <<"u","n","k","n","o","w","n">>
        /\ ~UploadFailed
        /\ pc \in {"save_log", "finally", "cleanup", "exited"}
        /\ pc # "save_log" =>
              /\ ledger.exists
              /\ title \in DOMAIN ledger.data
              /\ ledger.data[title] = UnknownUrl
              /\ Printed("Upload completed but could not extract video URL")
              /\ ~Printed("Done! Video URL")
              /\ pending = "none"
        /\ pc = "exited" => exit_code = <<0>>

\* A run ended with the sentinel written to the ledger.
C6_Witness ==
    /\ pc = "exited"
    /\ NoIdentifierFound
    /\ clicks # <<>> /\ clicks[Len(clicks)].ok
    /\ ledger.data[title] = UnknownUrl
    /\ exit_code = <<0>>

\* The title of this run was a key of the ledger when the run started.
TitleInLedger == title # <<>> /\ ledger0.exists /\ title \in DOMAIN ledger0.data

\* C7: when the title is already a key of the ledger, the confirmation is
\* asked before any download or upload starts; after a refusal the run exits
\* 0 with the ledger unchanged, no file downloaded or deleted, no upload.
C7_PromptBeforeReupload ==
    /\ TitleInLedger =>
          \A k \in 1..Len(trace) :
              trace[k] \in {"zoom.download_recording", "yt.upload_video", "unlink"}
                  => \E j \in 1..(k - 1) : trace[j] = "confirm prompt"
    /\ (TitleInLedger /\ pc \in {"download", "close_zoom"}) => InTrace("confirm prompt")
    /\ Printed("Aborted") =>
          /\ TitleInLedger
          /\ pc \in {"finally", "exited"}
          /\ pending = "exit0"
          /\ pc = "exited" => exit_code = <<0>>
          /\ ledger = ledger0
          /\ files = files0
          /\ ~InTrace("zoom.download_recording")
          /\ ~InTrace("yt.upload_video")
          /\ ~InTrace("unlink")

\* A run for a title of the ledger was refused at the prompt and has ended,
\* with the file of an earlier failed run still in place.
C7_Witness ==
    /\ pc = "exited"
    /\ TitleInLedger
    /\ Printed("Aborted")
    /\ InTrace("confirm prompt")
    /\ DestPath \in DOMAIN files
    /\ exit_code = <<0>>

\* C8: the destination file is deleted only after upload_video returned a
\* result in this run; on every other path no file is deleted or replaced.
C8_DeleteOnlyAfterUpload ==
    /\ InTrace("unlink") => result # <<>>
    /\ pc = "cleanup" => result # <<>>
    /\ result = <<>> =>
          \A n \in DOMAIN files0 : n \in DOMAIN files /\ files[n] = files0[n]
    /\ (result = <<>> /\ Printed("Downloaded")) => DestPath \in DOMAIN files
    /\ \A n \in DOMAIN files0 \ DOMAIN files : n = DestPath /\ InTrace("unlink")

\* A run uploaded its file and deleted it.
C8_Witness ==
    /\ pc = "exited"
    /\ result # <<>>
    /\ InTrace("unlink")
    /\ Printed("Downloaded")
    /\ DestPath \notin DOMAIN files

\* C9: when the orchestrator invokes upload_video, the file at file_path
\* exists and is not empty.
C9_UploadedFileExistsNonEmpty ==
    pc = "yt_open" =>
        /\ DestPath \in DOMAIN files
        /\ files[DestPath].size # "empty"

\* list_recordings returned the empty sequence in this run.
ReturnedEmpty ==
    /\ InTrace("zoom.list_recordings")
    /\ recordings = <<>>
    /\ ~Printed("Failed to fetch recordings")

\* C10: when list_recordings returns the empty sequence, the run prints the
\* informational message and exits 0, with no download, no upload and the
\* ledger unchanged.
C10_NoRecordingsExitsZero ==
    ReturnedEmpty =>
        /\ Printed("No recordings found")
        /\ pc \in {"finally", "exited"}
        /\ pending = "exit0"
        /\ pc = "exited" => exit_code = <<0>>
        /\ ~InTrace("select prompt")
        /\ ~InTrace("zoom.download_recording")
        /\ ~InTrace("yt.upload_video")
        /\ ~InTrace("unlink")
        /\ ledger = ledger0
        /\ files = files0

\* A run found no recording and has ended, the ledger of earlier runs intact.
C10_Witness ==
    /\ pc = "exited"
    /\ ReturnedEmpty
    /\ Printed("No recordings found")
    /\ exit_code = <<0>>
    /\ ledger.exists /\ DOMAIN ledger.data # {}

\* The file at the destination path was written in this run.
WrittenThisRun == DestPath \in DOMAIN files /\ DestPath \notin DOMAIN files0

\* C11: exactly one recording is selected without a selection prompt; the
\* prompt is issued only for two or more recordings, and the recording
\* selected and downloaded is the one at the number typed.
C11_SelectionByPrompt ==
    /\ InTrace("select prompt") <=> choice # <<>>
    /\ choice # <<>> => Len(recordings) >= 2
    /\ selected # <<>> =>
          /\ Len(recordings) = 1 => choice = <<>> /\ selected[1] = recordings[1]
          /\ Len(recordings) >= 2 =>
                /\ choice # <<>>
                /\ choice[1] \in 1..Len(recordings)
                /\ selected[1] = recordings[choice[1]]
    /\ (selected # <<>> /\ WrittenThisRun) =>
          files[DestPath].from =
              recordings[IF choice = <<>> THEN 1 ELSE choice[1]].download_url

\* The second of two recordings was chosen at the prompt and downloaded.
C11_Witness ==
    /\ Len(recordings) = 2
    /\ choice = <<2>>
    /\ Printed("Downloaded")
    /\ WrittenThisRun
    /\ files[DestPath].from = recordings[2].download_url
    /\ recordings[2].download_url # recordings[1].download_url

\* The run reported an error of the user's input.
UserInputError == Printed("cannot parse date") \/ Printed("Invalid selection")

\* C12: on a date text that cannot be parsed, or a selection number below 1
\* or above the number of recordings, the run exits non-zero with the ledger
\* unchanged, no file downloaded or deleted and no upload started.
C12_UserInputErrorChangesNothing ==
    /\ (choice # <<>> /\ choice[1] \notin 1..Len(recordings)) =>
          Printed("Invalid selection")
    /\ (pc = "exited" /\ recording_date = NoDate /\ ~Printed("config not found")) =>
          Printed("cannot parse date")
    /\ UserInputError =>
          /\ pc \in {"finally", "exited"}
          /\ pc = "finally" => pending = "exit1"
          /\ pc = "exited" => exit_code = <<1>>
          /\ selected = <<>>
          /\ ledger = ledger0
          /\ files = files0
          /\ ~InTrace("zoom.download_recording")
          /\ ~InTrace("yt.upload_video")
          /\ ~InTrace("save_upload_log")
          /\ ~InTrace("unlink")

\* A run with a ledger and a left-over file ended on a wrong selection number.
C12_Witness ==
    /\ pc = "exited"
    /\ choice # <<>> /\ choice[1] > Len(recordings)
    /\ Printed("Invalid selection")
    /\ exit_code = <<1>>
    /\ ledger.exists
    /\ files # EmptyLog

\* download_recording found no visible download control.
NoDownloadControl == InTrace("zoom.download_recording") /\ error = NoButtonMessage

\* C13: when no visible control matches a download selector,
\* download_recording fails before any click and writes no file; the run
\* then exits non-zero, upload_video is not invoked, the ledger is unchanged.
C13_NoControlNoClickNoFile ==
    NoDownloadControl =>
        /\ ~InTrace("download click")
        /\ DestPath \notin DOMAIN files
        /\ files = files0
        /\ Printed("Download failed")
        /\ pc \in {"finally", "exited"}
        /\ pc = "finally" => pending = "exit1"
        /\ pc = "exited" => exit_code = <<1>>
        /\ result = <<>>
        /\ ~InTrace("yt.ensure_logged_in")
        /\ ~InTrace("yt.upload_video")
        /\ ~InTrace("save_upload_log")
        /\ ledger = ledger0

\* A run with a ledger of earlier uploads ended on the missing control.
C13_Witness ==
    /\ pc = "exited"
    /\ NoDownloadControl
    /\ Printed("Download failed")
    /\ exit_code = <<1>>
    /\ ledger.exists /\ DOMAIN ledger.data # {}

----------------------------------------------------------------------------
(* Properties of upload_video on every Studio dialog (SpecUpload).         *)

\* The page shows a failure: a visible error element with an error word, or
\* a failure phrase in its text.
FailureIndicator(dom) ==
    \/ \E k \in 1..Len(dom.error_els) :
          /\ dom.error_els[k].visible
          /\ \E w \in ErrorWords : contains(lower(strip(dom.error_els[k].text)), w)
    \/ \E ph \in FailurePhrases : contains(lower(dom.body), ph)

\* The pages of the poll that show a failure.
FailingDoms == {dom \in Doms : FailureIndicator(dom)}

\* The operation was attempted in this call of upload_video.
Attempted(do, on) == \E k \in 1..Len(ops) : ops[k].do = do /\ ops[k].on = on

\* The finish control, or one of its fallbacks, was clicked or tried.
FinishAttempted ==
    \/ clicks # <<>>
    \/ \E k \in 1..Len(FinishControls) : Attempted("click", FinishControls[k])

\* C14: the finish control is clicked only when the poll ended on an
\* enabled finish control with no failure indicator; a poll that ends on a
\* failure indicator, or a wait that times out, makes upload_video raise
\* with a screenshot and the scraped status text, without a publish click
\* and without a result.
C14_PublishOnlyAfterCleanPoll ==
    /\ (pc \in {"yt_publish", "yt_extract"} \/ (FinishAttempted /\ result = <<>>)) =>
          /\ yt_dom.done_btn = "enabled"
          /\ yt_dom \in Doms \ FailingDoms
    /\ (WaitEnded /\ yt_dom \in FailingDoms) =>
          /\ pc \in {"yt_check", "finally", "exited"}
          /\ ~FinishAttempted
          /\ result = <<>>
          /\ pc # "yt_check" =>
                /\ UploadFailed
                /\ Attempted("screenshot", "yt_debug_upload_error.png")
                /\ \E text \in StatusTexts :
                      error = upload_error_message(upload_error, text)
    /\ Attempted("screenshot", "yt_debug_upload_timeout.png") =>
          /\ pc \in {"finally", "exited"}
          /\ UploadFailed
          /\ ~FinishAttempted
          /\ result = <<>>
          /\ \E text \in StatusTexts : error = timeout_message(text)

\* The poll ended on a failure phrase while the finish control was enabled,
\* and upload_video raised.
C14_Witness ==
    /\ pc = "finally"
    /\ yt_dom.done_btn = "enabled"
    /\ yt_dom \in FailingDoms
    /\ UploadFailed
    /\ Attempted("screenshot", "yt_debug_upload_error.png")
    /\ clicks = <<>>

\* The number of attempts of an operation in this call of upload_video.
Attempts(do, on) == Cardinality({k \in 1..Len(ops) : ops[k].do = do /\ ops[k].on = on})

\* The operation was attempted and did not go through.
FailedAttempt(do, on) ==
    \E k \in 1..Len(ops) : ops[k].do = do /\ ops[k].on = on /\ ~ops[k].ok

\* The wizard went through all its best-effort steps.
ReachedWait ==
    /\ Attempted("click", "NOT_MADE_FOR_KIDS")
    /\ Attempts("click", "#next-button") = NextSteps
    /\ Attempted("click", "PUBLIC")

----------------------------------------------------------------------------
(* Properties of the ledger and of the browser pages (Spec).               *)

\* The ledger's keys and values when the run started.
LedgerBefore == IF ledger0.exists THEN ledger0.data ELSE EmptyLog

\* C16: the ledger file is written only in a run where upload_video
\* returned a result; it then maps the title to the URL of that result, every
\* other key keeps its value; a failed or aborted run leaves the file as it was.
C16_LedgerWrittenOnlyAfterUpload ==
    /\ result = <<>> => ledger = ledger0 /\ ~InTrace("save_upload_log")
    /\ ledger # ledger0 => InTrace("save_upload_log")
    /\ InTrace("save_upload_log") =>
          /\ result # <<>>
          /\ ledger.exists
          /\ DOMAIN ledger.data = DOMAIN LedgerBefore \cup {title}
          /\ ledger.data[title] = <<"h","t","t","p","s",":","/","/","y","o","u","t","u",".","b","e","/">> \o result[1].video_id
          /\ \A t \in DOMAIN LedgerBefore \ {title} : ledger.data[t] = LedgerBefore[t]
    /\ (pc \in {"cleanup", "exited"} /\ result # <<>>) => InTrace("save_upload_log")

\* A second upload of a title replaced its URL and kept another title's.
C16_Witness ==
    /\ pc = "exited"
    /\ result # <<>>
    /\ title \in DOMAIN LedgerBefore
    /\ ledger.data[title] # LedgerBefore[title]
    /\ \E t \in DOMAIN LedgerBefore : t # title /\ ledger.data[t] = LedgerBefore[t]

ZoomOps == {"zoom.ensure_logged_in", "zoom.list_recordings", "zoom.download_recording",
            "download click", "last Download button", "download click again",
            "transfer started", "save_as", "zoom.close_page"}
               \cup {ModalSelectors[k] : k \in 1..Len(ModalSelectors)}

YouTubeOps == {"yt.ensure_logged_in", "yt.upload_video", "yt.close_page"}

\* C17: each driver holds at most one open page, the Zoom page is closed
\* before the YouTube page is opened, the two are never open together, and
\* no Zoom operation follows the first YouTube operation.
C17_OnePageAtATime ==
    /\ browser.zoom_open \in {0, 1}
    /\ browser.yt_open \in {0, 1}
    /\ browser.zoom_open + browser.yt_open <= 1
    /\ browser.zoom_page # "none" => browser.yt_page = "none"
    /\ \A k \in 1..Len(trace) :
          trace[k] \in YouTubeOps =>
              /\ \E j \in 1..(k - 1) : trace[j] = "zoom.close_page"
              /\ \A j \in (k + 1)..Len(trace) : trace[j] \notin ZoomOps

\* The upload is under way in the YouTube page, after three Zoom operations
\* in one page, now closed.
C17_Witness ==
    /\ pc = "yt_poll"
    /\ InTrace("zoom.download_recording")
    /\ browser.zoom_open = 0
    /\ browser.yt_open = 1
    /\ browser.context = "open"

----------------------------------------------------------------------------
(* Properties of the order of the wizard (SpecUpload).                     *)

\* The targets of the operations of each part of upload_video, in the order
\* of the wizard: open, file, title, description, thumbnail, playlist,
\* audience, "next", visibility, and what follows the processing wait.
WizardParts ==
    << {"studio.youtube.com"},
       {"input[type=file]"},
       {"#title-textarea"},
       {"#description-textarea"},
       {"Upload thumbnail", ThumbnailInputs[1], ThumbnailInputs[2], "yt_debug_thumbnail.png"},
       {"ytcp-video-metadata-playlists", "label", "Done", "Escape"},
       {"NOT_MADE_FOR_KIDS", "No, it's not made for kids"},
       {"#next-button", "yt_debug_step.png"},
       {"PUBLIC", "Public", "yt_debug_visibility.png"},
       {"yt_debug_upload_timeout.png", "yt_debug_upload_error.png", "#done-button",
        "Publish", "Save", "yt_debug_publish.png"} >>

PartOf(op) == CHOOSE n \in 1..Len(WizardParts) : op.on \in WizardParts[n]

\* The processing wait has started: a poll was made or the wait ended.
WaitStarted ==
    \/ pc \in {"yt_poll", "yt_check", "yt_publish", "yt_extract", "save_log"}
    \/ yt_dom # NoDom
    \/ result # <<>>
    \/ Attempted("screenshot", "yt_debug_upload_timeout.png")

\* C18: the operations of upload_video follow the order of the wizard and
\* never go back: the file input is set once, before the title, the title
\* before the description, the details before the "next" clicks, exactly
\* three "next" clicks are attempted whatever their outcome, the visibility
\* comes after the third, and the processing wait after the visibility.
C18_WizardOrder ==
    LET parts == [k \in 1..Len(ops) |-> PartOf(ops[k])]
    IN  /\ \A k \in 1..Len(ops) : \E n \in 1..Len(WizardParts) : ops[k].on \in WizardParts[n]
        /\ \A k \in 1..(Len(ops) - 1) : parts[k] <= parts[k + 1]
        /\ \A k \in 1..(Len(ops) - 1) : parts[k] \in 1..4 => parts[k] < parts[k + 1]
        /\ \A k \in 1..Len(ops) :
              /\ parts[k] \in 1..4 => k = parts[k]
              /\ parts[k] > 4 => k > 4
              /\ parts[k] > 7 => \E j \in 1..(k - 1) : parts[j] = 7
        /\ Attempts("click", "#next-button") <= NextSteps
        /\ Attempted("click", "PUBLIC") => Attempts("click", "#next-button") = NextSteps
        /\ WaitStarted => Attempted("click", "PUBLIC")
        /\ (WaitStarted /\ config.thumbnail_file # <<>>) => Attempted("click", "Upload thumbnail")
        /\ (WaitStarted /\ config.playlist_name # <<>>) =>
              Attempted("click", "ytcp-video-metadata-playlists")

\* The wait started after three "next" clicks of which only the second went
\* through, with thumbnail and playlist configured.
C18_Witness ==
    /\ pc = "yt_check"
    /\ config.thumbnail_file # <<>> /\ config.playlist_name # <<>>
    /\ studio.next = [k \in 1..NextSteps |-> k = 2]
    /\ Attempts("click", "#next-button") = NextSteps
    /\ Attempted("click", "PUBLIC")

\* The clicks on the finish controls, as the log of operations has them.
FinishOps == SelectSeq(ops, LAMBDA op : op.do = "click" /\ op.on \in
                 {FinishControls[k] : k \in 1..Len(FinishControls)})

\* C19: the finish controls are tried in the order #done-button, "Publish",
\* "Save", a later one only after every earlier one failed, so at most one
\* click succeeds; upload_video raises, with a screenshot, exactly when all
\* three failed, and the identifier is extracted only after a click succeeded.
C19_PublishFallbackOrder ==
    /\ Len(clicks) <= Len(FinishControls)
    /\ Len(FinishOps) = Len(clicks)
    /\ \A k \in 1..Len(clicks) :
          /\ clicks[k].control = FinishControls[k]
          /\ FinishOps[k] = Op("click", FinishControls[k], clicks[k].ok)
          /\ k < Len(clicks) => ~clicks[k].ok
    /\ Cardinality({k \in 1..Len(clicks) : clicks[k].ok}) <= 1
    /\ Attempted("screenshot", "yt_debug_publish.png") <=>
          (Len(clicks) = Len(FinishControls) /\ \A k \in 1..Len(clicks) : ~clicks[k].ok)
    /\ Attempted("screenshot", "yt_debug_publish.png") <=> error = PublishMessage
    /\ error = PublishMessage => UploadFailed /\ result = <<>> /\ pc \in {"finally", "exited"}
    /\ (pc = "yt_extract" \/ result # <<>>) =>
          /\ clicks # <<>>
          /\ clicks[Len(clicks)].ok
          /\ ~UploadFailed

\* The "Save" control went through after the two before it failed.
C19_Witness ==
    /\ result # <<>>
    /\ Len(clicks) = 3
    /\ ~clicks[1].ok /\ ~clicks[2].ok /\ clicks[3].ok
    /\ clicks[3].control = "Save"

\* The operations of _set_playlist in this call.
PlaylistOps == SelectSeq(ops, LAMBDA op : op.on \in WizardParts[6])

\* An attempt to close the playlist dialog.
ClosesDialog(op) ==
    \/ op.do = "click" /\ op.on = "Done"
    \/ op.do = "press" /\ op.on = "Escape"

\* C20: on every path through _set_playlist an attempt to close the dialog
\* is made before it returns, by the click on "Done" or by the Escape key,
\* and _set_playlist never raises.
C20_PlaylistDialogClosed ==
    /\ PlaylistOps # <<>> =>
          /\ PlaylistOps[1] = Op("click", "ytcp-video-metadata-playlists",
                                 studio.playlist # "no_selector")
          /\ ClosesDialog(PlaylistOps[Len(PlaylistOps)])
          /\ \A k \in 1..Len(PlaylistOps) :
                (PlaylistOps[k].on = "Done" /\ ~PlaylistOps[k].ok) =>
                    /\ k < Len(PlaylistOps)
                    /\ PlaylistOps[k + 1].do = "press"
          /\ pc = "yt_audience" \/ Attempted("click", "NOT_MADE_FOR_KIDS")
    /\ (config.playlist_name # <<>> /\ Attempted("click", "NOT_MADE_FOR_KIDS")) =>
          PlaylistOps # <<>>

\* The click on the playlist's label failed and the key press failed too:
\* the wizard is at the audience step all the same.
C20_Witness ==
    /\ pc = "yt_audience"
    /\ studio.playlist = "label_click_fails"
    /\ ~studio.escape
    /\ Len(PlaylistOps) = 3
    /\ PlaylistOps[3] = Op("press", "Escape", FALSE)
    /\ ~UploadFailed


-----------------------------------------------------------------------------
(* The file handed to upload_video (Spec).                                 *)

\* C24: the file upload_video receives is the one downloaded from the
\* recording selected in this run, never a file an earlier run left at the
\* destination path for another recording.
C24_UploadsSelectedRecording ==
    pc = "yt_open" =>
        /\ selected # <<>>
        /\ DestPath \in DOMAIN files
        /\ files[DestPath].from = selected[1].download_url

-----------------------------------------------------------------------------
(* The identifier of the uploaded video (SpecUpload).                      *)

\* C26: the video_id _extract_video_id returns is a non-empty identifier
\* taken from the link or from the page URL, or the sentinel "unknown";
\* it is never the empty text.
C26_VideoIdNeverEmpty ==
    result # <<>> =>
        /\ result[1].video_id # <<>>
        /\ \/ result[1].video_id = UnknownId
           \/ contains(yt_dom.href, result[1].video_id)
           \/ contains(yt_dom.url, result[1].video_id)

-----------------------------------------------------------------------------
(* The end of a run (Spec).                                                *)

\* The number of times the operation e happened in this run.
Count(e) == Cardinality({k \in 1..Len(trace) : trace[k] = e})

\* C27: once the browser context is launched, every way the run ends closes
\* the context and stops the driver exactly once, and the file cleanup step
\* comes only after that.
C27_BrowserClosedOnce ==
    /\ Count("context.close") <= 1
    /\ Count("pw.stop") <= 1
    /\ InTrace("context.close") => InTrace("launch")
    /\ (InTrace("launch") /\ pc \in {"cleanup", "exited"}) =>
          /\ Count("context.close") = 1
          /\ Count("pw.stop") = 1
          /\ browser.context = "closed"
          /\ browser.pw = "stopped"
    /\ (InTrace("launch") /\ ~InTrace("context.close")) =>
          /\ browser.context = "open"
          /\ browser.pw = "started"
    /\ \A k \in 1..Len(trace) :
          trace[k] = "unlink" =>
              \E i \in 1..(k - 1) : \E j \in (i + 1)..(k - 1) :
                  trace[i] = "context.close" /\ trace[j] = "pw.stop"

\* A run ended by an uncaught error of the YouTube login: exit code 1 after
\* one close of the context.
C27_Witness ==
    /\ pc = "exited"
    /\ pending = "exception"
    /\ InTrace("yt.ensure_logged_in")
    /\ Count("context.close") = 1
    /\ exit_code = <<1>>

-----------------------------------------------------------------------------
(* SpecParse: _prompt_date and parse_date_input applied to every month-day *)
(* text and to texts of the other forms, in a common and in a leap year.   *)

\* The text "MM-DD" of a month and a day.
MonthDay(m, d) == ZeroPad(m, 2) \o <<"-">> \o ZeroPad(d, 2)

ParseTexts ==
    {MonthDay(m, d) : m \in 1..12, d \in 1..31}
        \cup DateTexts
        \cup { <<"2","-","3">>, <<" ","0","2","-","0","3"," ">>, <<"T","o","d","a","y">>, <<"2","0","2","8","-","0","2","-","2","9">>, <<"2","0","2","8","0","2","2","9">>,
               <<"2","0","2","6","-","0","2","-","2","9">>, <<"2","/","3">>, <<"0","2","-","0","3","-">> }

\* date.today(): a day of a common year and a day of a leap year.
ParseTodays == { [year |-> 2026, month |-> 12, day |-> 4],
                 [year |-> 2028, month |-> 3, day |-> 1] }

InitParse ==
    /\ pc = "prompt_date"
    /\ page = <<>>
    /\ recording_date = NoDate
    /\ recordings = <<>>
    /\ config = [thumbnail_file |-> <<>>, playlist_name |-> <<>>]
    /\ selected = <<>>
    /\ title = <<>>
    /\ upload_log = EmptyLog
    /\ result = <<>>
    /\ pending = "none"
    /\ exit_code = <<>>
    /\ console = <<>>
    /\ trace = <<>>
    /\ browser = NoBrowser
    /\ step = 0
    /\ yt_dom = NoDom
    /\ upload_error = <<>>
    /\ error = <<>>
    /\ clicks = <<>>
    /\ choice = <<>>
    /\ ops = <<>>
    /\ ledger = [exists |-> FALSE, data |-> EmptyLog]
    /\ files = EmptyLog
    /\ ledger0 = ledger
    /\ files0 = files
    /\ studio = StudioWorks
    /\ date_input \in ParseTexts
    /\ date_today \in ParseTodays
    /\ detail = NoDetail

NextParse == PromptDateOf(date_input, date_today)

SpecParse == InitParse /\ [][NextParse]_vars

\* C22: for every month-day pair that is a valid date in the current year,
\* 02-29 of a leap year included, the text "MM-DD" is parsed to that month
\* and day in the current year, and no parse error is raised for it.
C22_MonthDayInCurrentYear ==
    pc # "prompt_date" =>
        \A m \in 1..12, d \in 1..31 :
            (date_input = MonthDay(m, d) /\ valid_date(date_today.year, m, d)) =>
                /\ pc = "launch"
                /\ recording_date = [year |-> date_today.year, month |-> m, day |-> d]

-----------------------------------------------------------------------------
(* The fields of an entry (SpecList).                                      *)

\* The least number of a non-empty set of line numbers.
First(S) == CHOOSE k \in S : \A j \in S : k <= j

\* The numbers of the lines ls that match the date pattern.
DateAt(ls) == {k \in 1..Len(ls) : date_line_re(ls[k])}

\* The numbers of the lines that match HH:MM:SS and were not taken as the date.
DurationAt(ls) ==
    {k \in 1..Len(ls) :
        /\ duration_re(ls[k])
        /\ (DateAt(ls) # {} => k # First(DateAt(ls)))}

\* The numbers of the lines taken as neither, not purely numeric, longer than 3.
TopicAt(ls) ==
    {k \in 1..Len(ls) :
        /\ DateAt(ls) # {} => k # First(DateAt(ls))
        /\ DurationAt(ls) # {} => k # First(DurationAt(ls))
        /\ ~isdigit(ls[k])
        /\ Len(ls[k]) > 3}

\* The line at the first number of S, <<>> when S is empty.
LineAt(ls, S) == IF S = {} THEN <<>> ELSE ls[First(S)]

\* For each link text, after its hint lines are dropped: the first line of
\* each kind and the line numbers of the three kinds.
FirstMatches ==
    [t \in Texts |->
        LET ls == clean_lines(entry_lines(t))
        IN  [date |-> LineAt(ls, DateAt(ls)),
             duration |-> LineAt(ls, DurationAt(ls)),
             topic |-> LineAt(ls, TopicAt(ls)),
             dates |-> DateAt(ls),
             used |-> {First(S) : S \in {DateAt(ls), DurationAt(ls), TopicAt(ls)} \ {{}}},
             kinds |-> Cardinality({DateAt(ls), DurationAt(ls), TopicAt(ls)} \ {{}})]]

\* C23: the date of a Recording is the entry's first line matching the date
\* pattern, the duration its first HH:MM:SS line not taken as the date, the
\* topic its first line taken as neither that is not numeric and longer than
\* 3 characters, "Unknown" when there is no such line; the three lines differ.
C23_FieldsByFirstMatch ==
    Listed =>
        \A k \in 1..Len(recordings) :
            \E i \in 1..Len(page) :
                LET m == FirstMatches[page[i].text]
                IN  /\ recordings[k].download_url = page[i].href
                    /\ recordings[k].date = m.date
                    /\ recordings[k].duration = m.duration
                    /\ m.topic # <<>> => recordings[k].topic = m.topic
                    /\ m.topic = <<>> => recordings[k].topic = Unknown
                    /\ Cardinality(m.used) = m.kinds

\* One page gave a Recording without a topic line and a Recording whose
\* topic is its second date line.
C23_Witness ==
    /\ Listed
    /\ Len(recordings) = 2
    /\ recordings[1].topic = Unknown
    /\ FirstMatches[page[1].text].topic = <<>>
    /\ recordings[2].topic = LineDec3Slash
    /\ FirstMatches[page[2].text].dates = {1, 2}
    /\ recordings[2].duration = LineHour

-----------------------------------------------------------------------------
(* Deduplication by the pair of topic and date line (SpecList).            *)

\* Link i has more than two lines and its date line matches the requested date.
Eligible(i) ==
    /\ LineCount(i) > 2
    /\ matches_date(Fields(i).date_text, recording_date)

\* C25: an eligible entry whose (topic, date line) pair differs from the pair
\* of every earlier eligible entry is kept.
C25_DistinctPairsBothKept ==
    Listed =>
        \A i \in 1..Len(page) :
            (/\ Eligible(i)
             /\ \A j \in 1..(i - 1) :
                   Eligible(j) => <<Fields(j).topic, Fields(j).date_text>>
                                      # <<Fields(i).topic, Fields(i).date_text>>)
                => Included(i)

-----------------------------------------------------------------------------
(* SpecDownload: download_recording as cli.run calls it (cli.py 154-163),  *)
(* on every recording detail page.                                         *)

\* The run up to the call: one recording found, no file at the destination.
InitDownload ==
    /\ pc = "download"
    /\ page = <<>>
    /\ recording_date = UploadDate
    /\ recordings = list_recordings(<<EntryA>>, UploadDate)
    /\ config \in Configs
    /\ selected = <<recordings[1]>>
    /\ title = make_title(UploadDate)
    /\ upload_log = EmptyLog
    /\ ledger = [exists |-> FALSE, data |-> EmptyLog]
    /\ files = EmptyLog
    /\ result = <<>>
    /\ pending = "none"
    /\ exit_code = <<>>
    /\ console = <<"Zoom ready", "Found">>
    /\ trace = <<"launch", "zoom.ensure_logged_in", "zoom.list_recordings">>
    /\ browser = zoom_get_page([NoBrowser EXCEPT !.pw = "started", !.context = "open"])
    /\ step = 0
    /\ yt_dom = NoDom
    /\ upload_error = <<>>
    /\ error = <<>>
    /\ clicks = <<>>
    /\ ledger0 = ledger
    /\ files0 = files
    /\ studio = StudioWorks
    /\ choice = <<>>
    /\ ops = <<>>
    /\ date_input = <<>>
    /\ date_today = NoDate
    /\ detail \in DetailPages

NextDownload == DownloadOf(detail)

SpecDownload == InitDownload /\ [][NextDownload]_vars

\* The clicks of the confirmation probes, in the order the probes are written.
ProbeClicks == ModalSelectors \o <<"last Download button", "download click again">>

\* The place of a probe's click in that order (0: not a probe's click).
ProbeRank(e) ==
    IF \E r \in 1..Len(ProbeClicks) : ProbeClicks[r] = e
        THEN CHOOSE r \in 1..Len(ProbeClicks) : ProbeClicks[r] = e
        ELSE 0

\* C21: the first click is on the control found first; the confirmation
\* probes click in the order modal selectors, last "Download" button (only
\* when there are several), second click on the control; no probe clicks
\* after a transfer was reported started; the save follows a started
\* transfer, and a successful download saved exactly once.
C21_DownloadProbesInOrder ==
    /\ Count("download click") <= 1
    /\ \A k \in 1..Len(trace) :
          /\ trace[k] = "download click" => trace[k - 1] = "zoom.download_recording"
          /\ ProbeRank(trace[k]) > 0 =>
                \E j \in 1..(k - 1) : trace[j] = "download click"
          /\ trace[k] = "save_as" => trace[k - 1] = "transfer started"
    /\ \A i, j \in 1..Len(trace) :
          (i < j /\ ProbeRank(trace[i]) > 0 /\ ProbeRank(trace[j]) > 0) =>
              ProbeRank(trace[i]) < ProbeRank(trace[j])
    /\ \A i, j \in 1..Len(trace) :
          (i < j /\ trace[i] = "transfer started") => trace[j] = "save_as"
    /\ InTrace("last Download button") => detail.buttons > 1
    /\ (InTrace("download click") /\ ~InTrace("transfer started")) =>
          /\ InTrace("download click again")
          /\ detail.buttons > 1 => InTrace("last Download button")
    /\ Count("save_as") <= 1
    /\ ~InTrace("save_as") => files = files0
    /\ Printed("Downloaded") =>
          /\ Count("save_as") = 1
          /\ DestPath \in DOMAIN files
          /\ files[DestPath].size = "complete"

\* Two modal buttons and the last button were clicked without a transfer,
\* the second click on the control started one, and the file was saved.
C21_Witness ==
    /\ Printed("Downloaded")
    /\ InTrace(ModalSelectors[2])
    /\ InTrace(ModalSelectors[4])
    /\ ~InTrace(ModalSelectors[1])
    /\ InTrace("last Download button")
    /\ InTrace("download click again")
    /\ Count("transfer started") = 1
    /\ Count("save_as") = 1

====
